---------------------------- MODULE Spec2Model ----------------------------
(***************************************************************************)
(* Model of motor_control_ble_pipe.c: the motor actuator, the PID          *)
(* controller, the command interpreter and the control loop of main().     *)
(*                                                                         *)
(* Conventions                                                             *)
(*  - A uint32_t tick is a pair <<hi, lo>> of 16-bit halves (hi*65536+lo), *)
(*    so that the full 32-bit width and its wraparound are kept.           *)
(*  - A double holding an RPM is kept as an integer number of half-RPMs    *)
(*    (value * 2); every RPM the model feeds in is a multiple of 0.5, and  *)
(*    the PID sum is kept in 1/2000 of a percent, so the arithmetic is     *)
(*    exact.                                                               *)
(*  - An input line is a sequence of one-character strings.                *)
(***************************************************************************)
EXTENDS Integers, Sequences, FiniteSets, TLC

VARIABLES
    g_speed,                  \* int g_speed
    g_motor_on,               \* int g_motor_on (0/1)
    g_direction,              \* int g_direction (1 forward, 0 reverse)
    g_quit,                   \* volatile int g_quit
    g_control_mode,           \* 0 manual, 1 automatic
    g_desired_rpm,            \* double, in half-RPMs
    g_pid_integral,           \* double, in half-RPMs
    g_pid_last_error,         \* double, in half-RPMs
    g_last_speed_change_time, \* uint32_t, <<0,0>> means "unset"
    g_current_rpm,            \* double, in half-RPMs, written by rpmThread
    g_pipe_fd,                \* -1 or the descriptor
    g_pipe_stream,            \* FALSE is NULL
    g_rpm_pipe_fd,
    g_rpm_pipe_stream,
    pipe_reconnect_timer,     \* main's local
    rpm_reconnect_timer,      \* main's static local
    pwm,                      \* duty on MOTOR_ENABLE_PIN (0..255)
    in1,                      \* level of MOTOR_IN1_PIN
    in2,                      \* level of MOTOR_IN2_PIN
    led,                      \* level of LED_PIN
    tick,                     \* gpioTick(), uint32_t microseconds
    pc,                       \* position of main()
    ready,                    \* select()'s return value in this cycle
    rd_stdin,                 \* FD_ISSET(STDIN_FILENO, &readfds)
    rd_pipe,                  \* FD_ISSET(g_pipe_fd, &readfds)
    ncycles,                  \* loop cycles started (bounds the run)
    quiet,                    \* cycles before the operator's first console line
    cmd,                      \* history: the line this step handed to processCommand
    was,                      \* history: St before this step's handler ran
    pipe_eof,                 \* history: this cycle read end-of-stream on the command pipe
    pid_call,                 \* history: this cycle's pidController call
    pid_changed,              \* history: the last call that returned a new speed
    write_failed,             \* history: the call in which this cycle's sendRPM write failed
    ncmds,                    \* history: processCommand calls of this cycle
    rpm_pc,                   \* position of rpmThread()
    g_rpm_mutex,              \* owner of g_rpm_mutex: "none", "main" or "rpm"
    ret_pc,                   \* where main() goes on when the current call returns
    speed_arg,                \* setSpeed()'s parameter `speed`
    sig_pc,                   \* history: where the signal handler cut in
    last_state,               \* rpmThread's local: the sensor level last read
    pulse_times,              \* rpmThread's local: circular buffer of edge ticks
    pulse_count,              \* rpmThread's local: edges held, up to the buffer size
    pulse_index,              \* rpmThread's local: the slot the next edge goes to
    last_update,              \* rpmThread's static local, <<0,0>> means "unset"
    nsamples,                 \* iterations of rpmThread's loop (bounds the run)
    recomputed,               \* history: this iteration stored a new estimate
    recon,                    \* history: cycles each pipe has been found closed, and
                              \* the count at which this cycle called open()
    g_pulse_count,            \* unsigned long g_pulse_count: edges seen
    era,                      \* history: wraps of gpioTick() since rpmThread
                              \* started, now and at each slot's last store
    last_connected_state,     \* the bridge's gboolean last_connected_state
    beeps,                    \* the bridge's beep threads: writes each has done
    fifo,                     \* lines in the command FIFO, written and not yet read
    link                      \* history: the connection changes, and what the
                              \* bridge wrote since the last one

vars == << g_speed, g_motor_on, g_direction, g_quit, g_control_mode,
           g_desired_rpm, g_pid_integral, g_pid_last_error,
           g_last_speed_change_time, g_current_rpm, g_pipe_fd, g_pipe_stream,
           g_rpm_pipe_fd, g_rpm_pipe_stream, pipe_reconnect_timer,
           rpm_reconnect_timer, pwm, in1, in2, led, tick, pc, ready,
           rd_stdin, rd_pipe, ncycles, quiet, cmd, was, pipe_eof, pid_call,
           pid_changed, write_failed, ncmds, rpm_pc, g_rpm_mutex, ret_pc, speed_arg,
           sig_pc, last_state, pulse_times, pulse_count, pulse_index,
           last_update, nsamples, recomputed, recon, g_pulse_count, era,
           last_connected_state, beeps, fifo, link >>

\* the bridge's state and the command FIFO
ble == << last_connected_state, beeps, fifo, link >>

\* rpmThread()'s locals
est == << last_state, pulse_times, pulse_count, pulse_index, last_update,
          nsamples, recomputed, g_pulse_count, era >>

----------------------------------------------------------------------------
(* Bounds of the model *)

\* loop cycles of main() a behaviour runs through once the console is in use
MaxCycles == 4

\* slots of rpmThread()'s circular buffer (1000 in the program)
PulseSlots == 3

\* iterations of rpmThread()'s loop a behaviour of the estimator runs through
MaxSamples == 6

----------------------------------------------------------------------------
(* Program constants *)

\* PID gains in thousandths: KP 0.03, KI 0.005, KD 0.01
KP == 30
KI == 5
KD == 10
MAX_INTEGRAL == 50
MAX_SPEED_CHANGE == 2
\* 500000 microseconds
RPM_STABILIZE_DELAY_US == <<7, 41248>>

----------------------------------------------------------------------------
(* uint32_t arithmetic on <<hi, lo>> *)

U32Zero == <<0, 0>>
U32Max == <<65535, 65535>>

U32Lt(a, b) == a[1] < b[1] \/ (a[1] = b[1] /\ a[2] < b[2])

\* a - b, modulo 2^32
U32Sub(a, b) ==
    LET lo == a[2] - b[2]
        borrow == IF lo < 0 THEN 1 ELSE 0
        hi == a[1] - b[1] - borrow
    IN  << (hi + 65536) % 65536, (lo + 65536) % 65536 >>

\* a + b, modulo 2^32
U32Add(a, b) ==
    LET lo == a[2] + b[2]
        carry == IF lo >= 65536 THEN 1 ELSE 0
        hi == a[1] + b[1] + carry
    IN  << hi % 65536, lo % 65536 >>

----------------------------------------------------------------------------
(* C string functions on sequences of characters *)

Digits == {"0", "1", "2", "3", "4", "5", "6", "7", "8", "9"}

DigitVal(c) ==
    CASE c = "0" -> 0 [] c = "1" -> 1 [] c = "2" -> 2 [] c = "3" -> 3
      [] c = "4" -> 4 [] c = "5" -> 5 [] c = "6" -> 6 [] c = "7" -> 7
      [] c = "8" -> 8 [] c = "9" -> 9

\* strcspn(s, c): length of the prefix of s holding no c
RECURSIVE strcspn(_, _)
strcspn(s, c) ==
    IF s = <<>> \/ Head(s) = c THEN 0 ELSE 1 + strcspn(Tail(s), c)

\* input[strcspn(input, c)] = 0
CutAt(s, c) == SubSeq(s, 1, strcspn(s, c))

\* strncmp(s, p, Len(p)) == 0
HasPrefix(s, p) == Len(s) >= Len(p) /\ SubSeq(s, 1, Len(p)) = p

\* the leading whitespace atoi/atof skip
RECURSIVE SkipSpace(_)
SkipSpace(s) ==
    IF s # <<>> /\ Head(s) \in {" ", "\t", "\n", "\r"}
    THEN SkipSpace(Tail(s)) ELSE s

\* value of the leading digits of s, continuing from acc
RECURSIVE DigitsVal(_, _)
DigitsVal(s, acc) ==
    IF s # <<>> /\ Head(s) \in Digits
    THEN DigitsVal(Tail(s), 10 * acc + DigitVal(Head(s)))
    ELSE acc

\* what follows the leading digits of s
RECURSIVE AfterDigits(_)
AfterDigits(s) ==
    IF s # <<>> /\ Head(s) \in Digits THEN AfterDigits(Tail(s)) ELSE s

\* atoi(s): optional whitespace, optional sign, digits; 0 when there are none
atoi(s) ==
    LET t == SkipSpace(s)
        neg == t # <<>> /\ Head(t) = "-"
        u == IF t # <<>> /\ Head(t) \in {"-", "+"} THEN Tail(t) ELSE t
        v == DigitsVal(u, 0)
    IN  IF neg THEN -v ELSE v

\* atof(s) in half units, for decimal text whose fraction is empty, .0 or .5
\* (the lines the model feeds in); 0 when no number leads the text
atof(s) ==
    LET t == SkipSpace(s)
        neg == t # <<>> /\ Head(t) = "-"
        u == IF t # <<>> /\ Head(t) \in {"-", "+"} THEN Tail(t) ELSE t
        whole == DigitsVal(u, 0)
        rest == AfterDigits(u)
        half == IF Len(rest) >= 2 /\ rest[1] = "." /\ rest[2] = "5"
                THEN 1 ELSE 0
        v == 2 * whole + half
    IN  IF neg THEN -v ELSE v

----------------------------------------------------------------------------
(* The controller's globals and the hardware outputs, as one record *)

St ==
    [ speed |-> g_speed, motor_on |-> g_motor_on, direction |-> g_direction,
      quit |-> g_quit, mode |-> g_control_mode, desired |-> g_desired_rpm,
      integral |-> g_pid_integral, last_error |-> g_pid_last_error,
      last_change |-> g_last_speed_change_time,
      pwm |-> pwm, in1 |-> in1, in2 |-> in2, led |-> led ]

Assign(s) ==
    /\ g_speed' = s.speed
    /\ g_motor_on' = s.motor_on
    /\ g_direction' = s.direction
    /\ g_quit' = s.quit
    /\ g_control_mode' = s.mode
    /\ g_desired_rpm' = s.desired
    /\ g_pid_integral' = s.integral
    /\ g_pid_last_error' = s.last_error
    /\ g_last_speed_change_time' = s.last_change
    /\ pwm' = s.pwm
    /\ in1' = s.in1
    /\ in2' = s.in2
    /\ led' = s.led

ctl == << g_speed, g_motor_on, g_direction, g_quit, g_control_mode,
          g_desired_rpm, g_pid_integral, g_pid_last_error,
          g_last_speed_change_time, pwm, in1, in2, led >>

----------------------------------------------------------------------------
(* Motor actuator *)

setDirection(s, dir) ==
    IF dir = 1
    THEN [s EXCEPT !.direction = dir, !.in1 = 1, !.in2 = 0]
    ELSE [s EXCEPT !.direction = dir, !.in1 = 0, !.in2 = 1]

\* setSpeed() without gpioWrite(LED_PIN, 0) at speed 0
setSpeedLedStaysOn(s, x) ==
    LET speed == IF x < 0 THEN 0 ELSE IF x > 100 THEN 100 ELSE x
    IN  IF speed = 0
        THEN [s EXCEPT !.speed = speed, !.motor_on = 0, !.pwm = 0]
        ELSE [s EXCEPT !.speed = speed, !.motor_on = 1,
                       !.pwm = (speed * 255) \div 100, !.led = 1]

\* setSpeed() that leaves the enabled flag alone at speed 0
setSpeedZeroKeepsFlag(s, x) ==
    LET speed == IF x < 0 THEN 0 ELSE IF x > 100 THEN 100 ELSE x
    IN  IF speed = 0
        THEN [s EXCEPT !.speed = speed, !.pwm = 0, !.led = 0]
        ELSE [s EXCEPT !.speed = speed, !.motor_on = 1,
                       !.pwm = (speed * 255) \div 100, !.led = 1]

\* setSpeed() without `if (speed > 100) speed = 100`
setSpeedNoUpperClamp(s, x) ==
    LET speed == IF x < 0 THEN 0 ELSE x
    IN  IF speed = 0
        THEN [s EXCEPT !.speed = speed, !.motor_on = 0, !.pwm = 0, !.led = 0]
        ELSE [s EXCEPT !.speed = speed, !.motor_on = 1,
                       !.pwm = (speed * 255) \div 100, !.led = 1]

setSpeed(s, x) ==
    LET speed == IF x < 0 THEN 0 ELSE IF x > 100 THEN 100 ELSE x
    IN  IF speed = 0
        THEN [s EXCEPT !.speed = speed, !.motor_on = 0, !.pwm = 0, !.led = 0]
        ELSE [s EXCEPT !.speed = speed, !.motor_on = 1,
                       !.pwm = (speed * 255) \div 100, !.led = 1]

\* motorOn() without `if (g_speed == 0) g_speed = 50`
motorOnNoDefault(s) ==
    IF s.motor_on # 0
    THEN s
    ELSE LET s2 == [s EXCEPT !.motor_on = 1]
             s3 == setDirection(s2, s2.direction)
         IN  setSpeed(s3, s3.speed)

\* motorOn() from a disabled motor, up to its call of setSpeed(g_speed)
motorOnEnter(s) ==
    LET s1 == IF s.speed = 0 THEN [s EXCEPT !.speed = 50] ELSE s
        s2 == [s1 EXCEPT !.motor_on = 1]
    IN  setDirection(s2, s2.direction)

motorOn(s) ==
    IF s.motor_on # 0
    THEN s
    ELSE LET s3 == motorOnEnter(s)
         IN  setSpeed(s3, s3.speed)

\* motorOff() that also forgets the stored speed
motorOffClearsSpeed(s) ==
    [s EXCEPT !.speed = 0, !.motor_on = 0, !.pwm = 0, !.in1 = 0, !.in2 = 0,
              !.led = 0]

\* motorOff() without gpioPWM(MOTOR_ENABLE_PIN, 0)
motorOffKeepsPwm(s) ==
    [s EXCEPT !.motor_on = 0, !.in1 = 0, !.in2 = 0, !.led = 0]

\* motorOff() without the two direction writes
motorOffNoBrake(s) ==
    [s EXCEPT !.motor_on = 0, !.pwm = 0, !.led = 0]

\* motorOff() that returns at once when the enabled flag is clear
motorOffOnlyWhenOn(s) ==
    IF s.motor_on = 0
    THEN s
    ELSE [s EXCEPT !.motor_on = 0, !.pwm = 0, !.in1 = 0, !.in2 = 0, !.led = 0]

\* motorOff() that switches a stopped motor back on
motorOffToggles(s) ==
    IF s.motor_on = 0
    THEN motorOn(s)
    ELSE [s EXCEPT !.motor_on = 0, !.pwm = 0, !.in1 = 0, !.in2 = 0, !.led = 0]

motorOff(s) ==
    [s EXCEPT !.motor_on = 0, !.pwm = 0, !.in1 = 0, !.in2 = 0, !.led = 0]

----------------------------------------------------------------------------
(* PID controller *)

Abs(n) == IF n < 0 THEN -n ELSE n

\* (int) of n/d, d > 0: truncation toward zero
Trunc(n, d) == IF n >= 0 THEN n \div d ELSE -((-n) \div d)

Clamp(n, lo, hi) == IF n < lo THEN lo ELSE IF n > hi THEN hi ELSE n

\* elapsed time since `last` as lines 247-250 compute it
PidElapsed(now, last) ==
    IF U32Lt(now, last)
    THEN U32Add(U32Sub(U32Max, last), now)
    ELSE U32Sub(now, last)

\* the reset without g_last_speed_change_time = 0
pidStopKeepsTimer(s) ==
    [s EXCEPT !.integral = 0, !.last_error = 0]

\* desired_rpm < 1.0: the accumulators and the stabilization timer are reset
pidStop(s) ==
    [s EXCEPT !.integral = 0, !.last_error = 0, !.last_change = U32Zero]

\* no rate limiting
rateLimitNone(sum) == sum

\* rate limiting of the adjustment (in 1/2000) to +-MAX_SPEED_CHANGE
rateLimit(sum) ==
    Clamp(sum, -(2000 * MAX_SPEED_CHANGE), 2000 * MAX_SPEED_CHANGE)

\* no clamp of the new speed
clampSpeedNone(n) == n

\* clamp of the new speed to the valid range
clampSpeed(n) == Clamp(n, 0, 100)

\* the integral accumulates every error and is not clamped
pidIntegralUnclamped(integral, error) == integral + error

\* anti-windup: the error is accumulated only when below 500 RPM, and the
\* sum is clamped to +-MAX_INTEGRAL
pidIntegral(integral, error) ==
    IF Abs(error) < 2 * 500
    THEN Clamp(integral + error, -(2 * MAX_INTEGRAL), 2 * MAX_INTEGRAL)
    ELSE integral

\* no kickstart
kickstartNone(current_speed, new_speed) == new_speed

\* `if (current_speed == 0 && new_speed > 0 && new_speed < 20) new_speed = 20`
kickstart(current_speed, new_speed) ==
    IF current_speed = 0 /\ new_speed > 0 /\ new_speed < 20
    THEN 20 ELSE new_speed

\* the gate's return that also forgets the last error
pidHoldForgetsError(s) ==
    [ s |-> [s EXCEPT !.last_error = 0], ret |-> s.speed, path |-> "gate" ]

\* `return g_speed` of the stabilization gate: nothing is updated
pidHold(s) == [ s |-> s, ret |-> s.speed, path |-> "gate" ]

\* pidController(current_rpm, desired_rpm); t1 and t2 are what its two
\* gpioTick() calls return.  The result is the state it leaves, the value
\* it returns and the return path it took.
pidController(s, current_rpm, desired_rpm, t1, t2) ==
    IF desired_rpm < 2
    THEN [ s |-> pidStop(s), ret |-> 0, path |-> "stop" ]
    ELSE IF /\ s.last_change # U32Zero
            /\ U32Lt(PidElapsed(t1, s.last_change), RPM_STABILIZE_DELAY_US)
    THEN pidHold(s)
    ELSE
    LET error == desired_rpm - current_rpm
        integral == pidIntegral(s.integral, error)
        \* p_term + i_term + d_term, in 1/2000
        sum == KP * error + KI * integral + KD * (error - s.last_error)
        adjustment == rateLimit(sum)
        current_speed == s.speed
        raw == clampSpeed(current_speed + Trunc(adjustment, 2000))
        new_speed == kickstart(current_speed, raw)
    IN  [ s |-> [s EXCEPT !.integral = integral, !.last_error = error,
                          !.last_change = IF new_speed # current_speed
                                          THEN t2 ELSE @],
          ret |-> new_speed, path |-> "computed" ]

----------------------------------------------------------------------------
(* Command interpreter *)

\* the target is not clamped from above
cmdAutoNoUpperClamp(s, arg) ==
    LET desired == IF atof(arg) < 0 THEN 0 ELSE atof(arg)
        s1 == [s EXCEPT !.desired = desired, !.mode = 1,
                        !.integral = 0, !.last_error = 0]
    IN  IF desired > 0
        THEN IF s1.motor_on = 0
             THEN LET s2 == [s1 EXCEPT !.motor_on = 1]
                      s3 == setDirection(s2, s2.direction)
                      s4 == IF s3.speed = 0
                            THEN [s3 EXCEPT !.speed = 30] ELSE s3
                  IN  setSpeed(s4, s4.speed)
             ELSE s1
        ELSE motorOff(s1)

\* the "auto N" branch of processCommand
cmdAuto(s, arg) ==
    LET desired == Clamp(atof(arg), 0, 2 * 10000)
        s1 == [s EXCEPT !.desired = desired, !.mode = 1,
                        !.integral = 0, !.last_error = 0]
    IN  IF desired > 0
        THEN IF s1.motor_on = 0
             THEN LET s2 == [s1 EXCEPT !.motor_on = 1]
                      s3 == setDirection(s2, s2.direction)
                      s4 == IF s3.speed = 0
                            THEN [s3 EXCEPT !.speed = 30] ELSE s3
                  IN  setSpeed(s4, s4.speed)
             ELSE s1
        ELSE motorOff(s1)

\* no mode check before the manual speed commands
manualBlockedNever(s) == FALSE

\* in automatic mode the manual speed commands are rejected
manualBlocked(s) == s.mode = 1

\* the manual-only tail of processCommand
cmdManualOnly(s, input) ==
    IF input = <<"+">> THEN setSpeed(s, s.speed + 10)
    ELSE IF input = <<"-">> THEN setSpeed(s, s.speed - 10)
    ELSE IF Len(input) >= 2 /\ input[1] = "s" /\ input[2] = " "
    THEN setSpeed(s, atoi(SubSeq(input, 3, Len(input))))
    ELSE s

\* `manual` also stops the motor
cmdManualModeStops(s) == motorOff([s EXCEPT !.mode = 0])

\* the `manual` branch of processCommand
cmdManualMode(s) == [s EXCEPT !.mode = 0]

processCommand(s, line) ==
    LET input == CutAt(CutAt(line, "\n"), "\r")
    IN  IF Len(input) = 0 THEN s
        ELSE IF HasPrefix(input, <<"a", "u", "t", "o", " ">>)
        THEN cmdAuto(s, SubSeq(input, 6, Len(input)))
        ELSE IF input = <<"m", "a", "n", "u", "a", "l">>
        THEN cmdManualMode(s)
        ELSE IF input = <<"o", "n">> THEN motorOn(s)
        ELSE IF input = <<"o", "f", "f">> THEN motorOff(s)
        ELSE IF input = <<"f">> THEN setDirection(s, 1)
        ELSE IF input = <<"r">> THEN setDirection(s, 0)
        ELSE IF input = <<"r", "p", "m">> THEN s
        ELSE IF input = <<"q">> THEN [s EXCEPT !.quit = 1]
        ELSE IF manualBlocked(s) THEN s
        ELSE cmdManualOnly(s, input)

----------------------------------------------------------------------------
(* Inputs the environment offers *)

\* lines read from the console or the command pipe
Lines ==
    { <<"o", "n", "\n">>,
      <<"o", "f", "f", "\n">>,
      <<"r", "\n">>,
      <<"q", "\n">>,
      <<"m", "a", "n", "u", "a", "l", "\n">>,
      <<"+", "\r", "\n">>,
      <<"-", "\n">>,
      <<"s", " ", "9", "9", "\n">>,
      <<"s", " ", "2", "\n">>,
      <<"s", " ", "a", "b", "c", "\n">>,
      <<"a", "u", "t", "o", " ", "1", "2", "0", "\n">>,
      <<"a", "u", "t", "o", " ", "0", ".", "5", "\n">>,
      <<"a", "u", "t", "o", " ", "0", "\n">>,
      <<"a", "u", "t", "o", " ", "x", "\n">>,
      <<"x", "y", "z", "\n">>,
      <<"\n">> }

\* lines of a session in which both the console and the bridge are in use
BridgeLines ==
    { <<"o", "n", "\n">>,
      <<"r", "\n">>,
      <<"q", "\n">>,
      <<"s", " ", "9", "9", "\n">>,
      <<"a", "u", "t", "o", " ", "1", "2", "0", "\n">> }

\* pulses in the 500 ms window at one estimate
PulseCounts == {0, 3, 30}

\* microseconds one loop cycle takes: select()'s 100 ms timeout, or 500 ms
\* when the process is scheduled late
CycleTime == <<1, 34464>>
CycleTimes == { CycleTime, <<7, 41248>> }

\* gpioTick() when main() enters its loop: just after the counter started,
\* and 200 ms and 250 ms before it wraps
StartTicks == { <<0, 1>>, <<65532, 62144>>, <<65532, 12144>> }

\* microseconds between pidController's two gpioTick() calls
TickSkew == { <<0, 0>>, <<0, 1>> }

\* loop cycles that pass before the operator types the first line: none, or
\* just enough for the first reconnect attempt of both pipes to fall due
QuietCycles == {0, 9}

\* loop cycles of a session whose console stays silent until both pipes have
\* seen their second reconnect attempt
LongQuiet == 19

\* the lines of that session
LongLines ==
    { <<"o", "n", "\n">>,
      <<"q", "\n">> }

NoCall == [called |-> FALSE]

\* no PID call has returned a new speed so far
NoChange == [set |-> FALSE, at |-> U32Zero]

\* the lines this session's console and bridge send
Offered ==
    IF quiet = 0 THEN Lines ELSE IF quiet = 9 THEN BridgeLines ELSE LongLines

----------------------------------------------------------------------------
(* State after main() has initialised the hardware and started rpmThread *)

NoSnap == [set |-> FALSE]
NoRecon == [ pipe_wait |-> 0, pipe_tried |-> 0, rpm_wait |-> 0, rpm_tried |-> 0 ]
NoEof == [seen |-> FALSE]

\* no device has connected yet, no beep thread runs, the FIFO is empty
NoLink == [changes |-> 0, down |-> FALSE, wrote |-> {}, off_read |-> FALSE]
BridgeIdle ==
    /\ last_connected_state = FALSE
    /\ beeps = <<>>
    /\ fifo = <<>>
    /\ link = NoLink

\* the globals, the pins and main()'s locals
InitMain ==
    /\ g_speed = 0
    /\ g_motor_on = 0
    /\ g_direction = 1
    /\ g_quit = 0
    /\ g_control_mode = 0
    /\ g_desired_rpm = 0
    /\ g_pid_integral = 0
    /\ g_pid_last_error = 0
    /\ g_last_speed_change_time = U32Zero
    /\ g_current_rpm = 0
    /\ g_pipe_fd = -1
    /\ g_pipe_stream = FALSE
    /\ g_rpm_pipe_fd = -1
    /\ g_rpm_pipe_stream = FALSE
    /\ pipe_reconnect_timer = 0
    /\ rpm_reconnect_timer = 0
    /\ pwm = 0
    /\ in1 = 0
    /\ in2 = 0
    /\ led = 0
    /\ tick \in (IF quiet = 0 THEN StartTicks ELSE {<<0, 1>>})
    /\ pc = "loop"
    /\ ready = 0
    /\ rd_stdin = FALSE
    /\ rd_pipe = FALSE
    /\ ncycles = 0
    /\ cmd = <<>>
    /\ was = NoSnap
    /\ pipe_eof = NoEof
    /\ pid_call = NoCall
    /\ pid_changed = NoChange
    /\ write_failed = "no"
    /\ ncmds = 0
    /\ rpm_pc = "loop"
    /\ g_rpm_mutex = "none"
    /\ ret_pc = "none"
    /\ speed_arg = 0
    /\ sig_pc = "none"
    /\ recon = NoRecon
    /\ BridgeIdle

\* rpmThread()'s locals when it enters its loop, but for the sensor level and
\* what the buffer's memory holds
InitThread ==
    /\ g_pulse_count = 0
    /\ era = [now |-> 0, slot |-> [i \in 0 .. PulseSlots - 1 |-> 0]]
    /\ pulse_count = 0
    /\ pulse_index = 0
    /\ last_update = U32Zero
    /\ nsamples = 0
    /\ recomputed = FALSE

Init ==
    /\ quiet \in QuietCycles
    /\ InitMain
    /\ InitThread
    /\ last_state = 0
    /\ pulse_times = [i \in 0 .. PulseSlots - 1 |-> U32Zero]

pipes == << g_pipe_fd, g_pipe_stream, g_rpm_pipe_fd, g_rpm_pipe_stream,
            pipe_reconnect_timer, rpm_reconnect_timer >>
sel == << ready, rd_stdin, rd_pipe >>
hist == << cmd, was, pipe_eof, pid_call, write_failed, ncmds >>
\* what rpmThread()'s and setSpeed()'s single statements work on
thr == << rpm_pc, g_rpm_mutex, ret_pc, speed_arg, sig_pc >>

----------------------------------------------------------------------------
(* rpmThread: every 100 ms it stores (pulses / 3) * 120 under the mutex.    *)
(* main() reads the value only in its periodic work, so the store is placed *)
(* right before that read.                                                  *)

rpmThread ==
    /\ pc = "periodic"
    /\ g_quit = 0
    /\ \E n \in PulseCounts : g_current_rpm' = 2 * 40 * n
    /\ g_current_rpm' # g_current_rpm
    /\ UNCHANGED << ctl, pipes, sel, hist, tick, pc, ncycles, quiet, ble, pid_changed, est, recon, thr >>

----------------------------------------------------------------------------
(* cleanup(): the signal handler, also called when the loop ends *)

closePipe ==
    /\ g_pipe_stream' = FALSE
    /\ g_pipe_fd' = -1

\* closeRPMPipe() without g_rpm_pipe_fd = -1
closeRPMPipeLeaksFd ==
    /\ g_rpm_pipe_stream' = FALSE
    /\ g_rpm_pipe_fd' = g_rpm_pipe_fd

closeRPMPipe ==
    /\ g_rpm_pipe_stream' = FALSE
    /\ g_rpm_pipe_fd' = -1

\* cleanup() up to closeRPMPipe(); it goes on at `next`.  cleanup() never
\* returns, so the locals of main() and the cycle's history end here.
cleanupTo(next) ==
    /\ Assign(motorOff([St EXCEPT !.quit = 1]))
    /\ closePipe
    /\ closeRPMPipe
    /\ ready' = 0
    /\ rd_stdin' = FALSE
    /\ rd_pipe' = FALSE
    /\ pipe_reconnect_timer' = 0
    /\ cmd' = <<>>
    /\ was' = NoSnap
    /\ pipe_eof' = NoEof
    /\ pid_call' = NoCall
    /\ pid_changed' = NoChange
    /\ write_failed' = "no"
    /\ ncmds' = 0
    /\ recon' = NoRecon
    /\ pc' = next
    /\ UNCHANGED << g_current_rpm, rpm_reconnect_timer, tick, ncycles, quiet, ble,
                    est, rpm_pc, g_rpm_mutex, ret_pc, speed_arg >>

\* cleanup() as a whole: rpmThread() sees g_quit and returns, pthread_join()
\* returns, and the process exits
cleanup ==
    /\ cleanupTo("exited")
    /\ UNCHANGED sig_pc

\* SIGINT or SIGTERM arrives while main() is between two steps
Signal ==
    /\ pc \notin {"cleanup", "exited"}
    /\ cleanup

\* main() left its loop
LoopEnd ==
    /\ pc = "cleanup"
    /\ cleanup

----------------------------------------------------------------------------
(* One cycle of main()'s loop, in the order of the code *)

\* while (!g_quit) is false
LoopQuit ==
    /\ pc = "loop"
    /\ g_quit # 0
    /\ pc' = "cleanup"
    /\ UNCHANGED << ctl, g_current_rpm, pipes, sel, hist, tick, ncycles,
                    quiet, ble, pid_changed, est, recon, thr >>

\* select() returns, after at most the timeout, with the set of ready
\* descriptors
Select ==
    /\ pc = "loop"
    /\ g_quit = 0
    /\ ncycles < quiet + MaxCycles
    /\ ncycles' = ncycles + 1
    /\ \E dt \in (IF quiet = 0 THEN CycleTimes ELSE {CycleTime}) :
          tick' = U32Add(tick, dt)
    /\ rd_stdin' \in (IF ncycles >= quiet THEN BOOLEAN ELSE {FALSE})
    /\ rd_pipe' \in (IF g_pipe_fd # -1 THEN BOOLEAN ELSE {FALSE})
    /\ ready' = (IF rd_stdin' THEN 1 ELSE 0) + (IF rd_pipe' THEN 1 ELSE 0)
    /\ pc' = "stdin"
    /\ UNCHANGED << ctl, g_current_rpm, pipes, hist, quiet, ble, pid_changed, est, recon, thr >>

\* select() fails with EINTR: continue
SelectEintr ==
    /\ pc = "loop"
    /\ g_quit = 0
    /\ ncycles < quiet + MaxCycles
    /\ ncycles' = ncycles + 1
    /\ UNCHANGED << ctl, g_current_rpm, pipes, sel, hist, tick, pc, quiet, ble, pid_changed, est,
                    recon, thr >>

\* select() fails otherwise: break
SelectFail ==
    /\ pc = "loop"
    /\ g_quit = 0
    /\ pc' = "cleanup"
    /\ UNCHANGED << ctl, g_current_rpm, pipes, sel, hist, tick, ncycles,
                    quiet, ble, pid_changed, est, recon, thr >>

\* keyboard input
Stdin ==
    /\ pc = "stdin"
    /\ IF ready > 0 /\ rd_stdin
       THEN \/ \* fgets() == NULL: break
               /\ pc' = "cleanup"
               /\ UNCHANGED << ctl, cmd, was, ncmds >>
            \/ \E line \in Offered :
                  /\ Assign(processCommand(St, line))
                  /\ cmd' = line
                  /\ was' = St
                  /\ ncmds' = ncmds + 1
                  /\ pc' = "pipe"
       ELSE /\ pc' = "pipe"
            /\ UNCHANGED << ctl, cmd, was, ncmds >>
    /\ UNCHANGED << g_current_rpm, pipes, sel, pipe_eof, pid_call,
                    write_failed, tick, ncycles, quiet, ble, pid_changed, est, recon, thr >>

\* the safety stop without g_control_mode = 0
pipeClosedKeepsMode(s) == motorOff(s)

\* fgets() on the command pipe returned NULL: the safety stop
pipeClosed(s) == [motorOff(s) EXCEPT !.mode = 0]

\* pipe input
Pipe ==
    /\ pc = "pipe"
    /\ IF g_pipe_fd # -1 /\ ready > 0 /\ rd_pipe
       THEN \/ /\ Assign(pipeClosed(St))
               /\ closePipe
               /\ pipe_eof' = [ seen |-> TRUE, console |-> cmd,
                                on |-> g_motor_on, mode |-> g_control_mode ]
               /\ cmd' = <<>>
               /\ was' = St
               /\ UNCHANGED ncmds
            \/ \E line \in Offered :
                  /\ Assign(processCommand(St, line))
                  /\ cmd' = line
                  /\ was' = St
                  /\ ncmds' = ncmds + 1
                  /\ UNCHANGED << g_pipe_fd, g_pipe_stream, pipe_eof >>
       ELSE /\ cmd' = <<>>
            /\ was' = NoSnap
            /\ UNCHANGED << ctl, g_pipe_fd, g_pipe_stream, pipe_eof, ncmds >>
    /\ pc' = "reconnect"
    /\ UNCHANGED << g_current_rpm, g_rpm_pipe_fd, g_rpm_pipe_stream,
                    pipe_reconnect_timer, rpm_reconnect_timer, sel, pid_call,
                    write_failed, tick, ncycles, quiet, ble, pid_changed, est, recon, thr >>

\* the test is always true
reconnectDueAlways(timer) == TRUE

\* if (pipe_reconnect_timer >= 10), if (rpm_reconnect_timer >= 10)
reconnectDue(timer) == timer >= 10

\* openPipe(): open() or fdopen() fails, or both succeed
openPipe ==
    \/ /\ g_pipe_fd' = -1
       /\ g_pipe_stream' = g_pipe_stream
    \/ /\ g_pipe_fd' = 3
       /\ g_pipe_stream' = TRUE

\* try to reconnect the command pipe
Reconnect ==
    /\ pc = "reconnect"
    /\ IF g_pipe_fd = -1
       THEN IF reconnectDue(pipe_reconnect_timer + 1)
            THEN /\ pipe_reconnect_timer' = 0
                 /\ openPipe
                 /\ recon' = [recon EXCEPT !.pipe_wait = 0,
                                           !.pipe_tried = recon.pipe_wait + 1]
            ELSE /\ pipe_reconnect_timer' = pipe_reconnect_timer + 1
                 /\ recon' = [recon EXCEPT !.pipe_wait = @ + 1,
                                           !.pipe_tried = 0]
                 /\ UNCHANGED << g_pipe_fd, g_pipe_stream >>
       ELSE /\ recon' = [recon EXCEPT !.pipe_wait = 0, !.pipe_tried = 0]
            /\ UNCHANGED << g_pipe_fd, g_pipe_stream, pipe_reconnect_timer >>
    /\ cmd' = <<>>
    /\ was' = NoSnap
    /\ pc' = "periodic"
    /\ UNCHANGED << ctl, g_current_rpm, g_rpm_pipe_fd, g_rpm_pipe_stream,
                    rpm_reconnect_timer, sel, pipe_eof, pid_call,
                    write_failed, ncmds, tick, ncycles, quiet, ble, pid_changed, est, thr >>

\* the controller also runs while the motor is disabled
pidDueMotorOff(r, mode, on) == r = 0 /\ mode = 1

\* the controller also runs in Manual mode
pidDueAnyMode(r, mode, on) == r = 0 /\ on # 0

\* `if (ready == 0)` and `if (g_control_mode == 1 && g_motor_on)`
pidDue(r, mode, on) == r = 0 /\ mode = 1 /\ on # 0

\* the periodic work of a timeout cycle: the PID controller, with main() at
\* position `at`
PeriodicAt(at) ==
    /\ pc = at
    /\ IF pidDue(ready, g_control_mode, g_motor_on)
       THEN \E skew \in TickSkew :
              LET r == pidController(St, g_current_rpm, g_desired_rpm,
                                     tick, U32Add(tick, skew))
              IN  /\ Assign(IF r.ret # r.s.speed
                            THEN setSpeed(r.s, r.ret) ELSE r.s)
                  /\ pid_call' =
                        [ called |-> TRUE, cur |-> g_speed, ret |-> r.ret,
                          path |-> r.path, target |-> g_desired_rpm,
                          armed |-> g_last_speed_change_time # U32Zero ]
                  /\ pid_changed' = IF r.ret # g_speed
                                    THEN [set |-> TRUE, at |-> tick]
                                    ELSE pid_changed
       ELSE UNCHANGED << ctl, pid_call, pid_changed >>
    /\ pc' = "status"
    /\ UNCHANGED << g_current_rpm, pipes, sel, cmd, was, pipe_eof,
                    write_failed, ncmds, tick, ncycles, quiet, ble, est, recon, thr >>

Periodic == PeriodicAt("periodic")

\* the periodic work of a timeout cycle: sendRPM(rpm); the write succeeds,
\* or fails and the pipe is closed
Status ==
    /\ pc = "status"
    /\ IF ready = 0 /\ g_rpm_pipe_stream
       THEN \/ UNCHANGED << g_rpm_pipe_fd, g_rpm_pipe_stream, write_failed,
                            was >>
            \* fputs() fails: closeRPMPipe()
            \/ /\ closeRPMPipe
               /\ write_failed' = "fputs"
               /\ was' = St
            \* fputs() fills the stream's buffer, the write fails in
            \* fflush(), whose result is dropped
            \/ /\ write_failed' = "fflush"
               /\ was' = St
               /\ UNCHANGED << g_rpm_pipe_fd, g_rpm_pipe_stream >>
       ELSE UNCHANGED << g_rpm_pipe_fd, g_rpm_pipe_stream, write_failed, was >>
    /\ pc' = "rpm_reconnect"
    /\ UNCHANGED << ctl, g_current_rpm, g_pipe_fd, g_pipe_stream,
                    pipe_reconnect_timer, rpm_reconnect_timer, sel, cmd,
                    pipe_eof, pid_call, ncmds, tick, ncycles, quiet, ble, pid_changed, est, recon, thr >>

\* openRPMPipe()
openRPMPipe ==
    \/ /\ g_rpm_pipe_fd' = -1
       /\ g_rpm_pipe_stream' = g_rpm_pipe_stream
    \/ /\ g_rpm_pipe_fd' = 4
       /\ g_rpm_pipe_stream' = TRUE

\* try to reconnect the RPM pipe
RpmReconnect ==
    /\ pc = "rpm_reconnect"
    /\ IF g_rpm_pipe_fd = -1
       THEN IF reconnectDue(rpm_reconnect_timer + 1)
            THEN /\ rpm_reconnect_timer' = 0
                 /\ openRPMPipe
                 /\ recon' = [recon EXCEPT !.rpm_wait = 0,
                                           !.rpm_tried = recon.rpm_wait + 1]
            ELSE /\ rpm_reconnect_timer' = rpm_reconnect_timer + 1
                 /\ recon' = [recon EXCEPT !.rpm_wait = @ + 1,
                                           !.rpm_tried = 0]
                 /\ UNCHANGED << g_rpm_pipe_fd, g_rpm_pipe_stream >>
       ELSE /\ recon' = [recon EXCEPT !.rpm_wait = 0, !.rpm_tried = 0]
            /\ UNCHANGED << g_rpm_pipe_fd, g_rpm_pipe_stream,
                            rpm_reconnect_timer >>
    /\ pc' = "end"
    /\ UNCHANGED << ctl, g_current_rpm, g_pipe_fd, g_pipe_stream,
                    pipe_reconnect_timer, sel, hist, tick, ncycles, quiet, ble, pid_changed, est,
                    thr >>

\* the cycle ends and its locals die
CycleEnd ==
    /\ pc = "end"
    /\ ready' = 0
    /\ rd_stdin' = FALSE
    /\ rd_pipe' = FALSE
    /\ cmd' = <<>>
    /\ was' = NoSnap
    /\ pipe_eof' = NoEof
    /\ pid_call' = NoCall
    /\ write_failed' = "no"
    /\ ncmds' = 0
    /\ recon' = [recon EXCEPT !.pipe_tried = 0, !.rpm_tried = 0]
    /\ pc' = "loop"
    /\ UNCHANGED << ctl, g_current_rpm, pipes, tick, ncycles, quiet, ble, pid_changed, est, thr >>

Next ==
    \/ rpmThread
    \/ Signal
    \/ LoopEnd
    \/ LoopQuit
    \/ Select
    \/ SelectEintr
    \/ SelectFail
    \/ Stdin
    \/ Pipe
    \/ Reconnect
    \/ Periodic
    \/ Status
    \/ RpmReconnect
    \/ CycleEnd

Spec == Init /\ [][Next]_vars

\* the same loop in a session long enough for two reconnect attempts
LongInit ==
    /\ quiet = LongQuiet
    /\ InitMain
    /\ InitThread
    /\ last_state = 0
    /\ pulse_times = [i \in 0 .. PulseSlots - 1 |-> U32Zero]

LongSpec == LongInit /\ [][Next]_vars

----------------------------------------------------------------------------
(* The same program at the grain of single statements, for what happens    *)
(* between rpmThread() and main() and between main() and the signal        *)
(* handler: rpmThread()'s store under the mutex, main()'s two reads under  *)
(* the mutex, setSpeed() statement by statement, and cleanup() with its    *)
(* pthread_join().  The loop is not bounded.  The session is a Manual one: *)
(* main() reads gpioTick() in pidController() alone, which a Manual        *)
(* session never runs, and rpmThread()'s estimate is drawn from            *)
(* ThreadPulseCounts, so `tick` keeps its value.                           *)
(* A signal sent to the process is handled on the main thread, which never *)
(* blocks it, so the handler cuts in between two statements of main().     *)

\* lines of a Manual session
ThreadLines ==
    { <<"o", "n", "\n">>,
      <<"q", "\n">>,
      <<"r", "p", "m", "\n">>,
      <<"s", " ", "0", "\n">> }

\* pulses in the window at one estimate of this session: none, or three
ThreadPulseCounts == {0, 3}

ThreadInit ==
    /\ Init
    /\ quiet = 0
    /\ tick = <<0, 1>>

\* what main() itself works on
mainOnlyButEst == << ctl, pipes, sel, hist, tick, pc, ncycles, quiet, ble, pid_changed, recon,
                     ret_pc, speed_arg, sig_pc >>

\* everything but what rpmThread() stores and the mutex
mainOnly == << mainOnlyButEst, est >>

\* pthread_mutex_lock(&g_rpm_mutex) returns once the mutex is free
mutexLock(who) ==
    /\ g_rpm_mutex = "none"
    /\ g_rpm_mutex' = who

\* pthread_mutex_unlock(&g_rpm_mutex)
mutexUnlock == g_rpm_mutex' = "none"

\* while (!g_quit): the loop ends, or an iteration finds an update due
rpmThreadLoop ==
    /\ rpm_pc = "loop"
    /\ rpm_pc' = (IF g_quit # 0 THEN "done" ELSE "lock")
    /\ UNCHANGED << mainOnly, g_current_rpm, g_rpm_mutex >>

rpmThreadLock ==
    /\ rpm_pc = "lock"
    /\ mutexLock("rpm")
    /\ rpm_pc' = "store"
    /\ UNCHANGED << mainOnly, g_current_rpm >>

\* g_current_rpm = (pulses_in_window / 3) * 120, or 0.0
rpmThreadStore ==
    /\ rpm_pc = "store"
    /\ \E n \in ThreadPulseCounts : g_current_rpm' = 2 * 40 * n
    /\ rpm_pc' = "unlock"
    /\ UNCHANGED << mainOnly, g_rpm_mutex >>

rpmThreadUnlock ==
    /\ rpm_pc = "unlock"
    /\ mutexUnlock
    /\ rpm_pc' = "loop"
    /\ UNCHANGED << mainOnly, g_current_rpm >>

\* what the steps of main() between two commands leave alone
loopOnly == << g_current_rpm, pipes, sel, hist, tick, ncycles, quiet, ble, pid_changed, est, recon, rpm_pc,
               sig_pc >>

\* main() takes the mutex at position `at`
mainLock(at, next) ==
    /\ pc = at
    /\ mutexLock("main")
    /\ pc' = next
    /\ UNCHANGED << ctl, loopOnly, ret_pc, speed_arg >>

\* double rpm = g_current_rpm
mainRead(at, next) ==
    /\ pc = at
    /\ pc' = next
    /\ UNCHANGED << ctl, loopOnly, g_rpm_mutex, ret_pc, speed_arg >>

mainUnlock(at, next) ==
    /\ pc = at
    /\ mutexUnlock
    /\ pc' = next
    /\ UNCHANGED << ctl, loopOnly, ret_pc, speed_arg >>

\* the `rpm` command: lock, copy, unlock, printf, return
CmdLock == mainLock("cmd_lock", "cmd_read")
CmdRead == mainRead("cmd_read", "cmd_unlock")
CmdUnlock == mainUnlock("cmd_unlock", "cmd_print")
CmdPrint ==
    /\ pc = "cmd_print"
    /\ pc' = ret_pc
    /\ UNCHANGED << ctl, loopOnly, g_rpm_mutex, ret_pc, speed_arg >>

\* setSpeed(speed): clamp the parameter and store it
SetSpeedStore ==
    /\ pc = "ss_store"
    /\ speed_arg' = (IF speed_arg < 0 THEN 0
                     ELSE IF speed_arg > 100 THEN 100 ELSE speed_arg)
    /\ Assign([St EXCEPT !.speed = speed_arg'])
    /\ pc' = "ss_flag"
    /\ UNCHANGED << loopOnly, g_rpm_mutex, ret_pc >>

\* g_motor_on = 0, or g_motor_on = 1
SetSpeedFlag ==
    /\ pc = "ss_flag"
    /\ Assign([St EXCEPT !.motor_on = IF speed_arg = 0 THEN 0 ELSE 1])
    /\ pc' = "ss_pwm"
    /\ UNCHANGED << loopOnly, g_rpm_mutex, ret_pc, speed_arg >>

\* gpioPWM(MOTOR_ENABLE_PIN, ...)
SetSpeedPwm ==
    /\ pc = "ss_pwm"
    /\ Assign([St EXCEPT !.pwm = IF speed_arg = 0 THEN 0
                                 ELSE (speed_arg * 255) \div 100])
    /\ pc' = "ss_led"
    /\ UNCHANGED << loopOnly, g_rpm_mutex, ret_pc, speed_arg >>

\* gpioWrite(LED_PIN, ...), and setSpeed() returns
SetSpeedLed ==
    /\ pc = "ss_led"
    /\ Assign([St EXCEPT !.led = IF speed_arg = 0 THEN 0 ELSE 1])
    /\ pc' = ret_pc
    /\ UNCHANGED << loopOnly, g_rpm_mutex, ret_pc, speed_arg >>

\* processCommand(line), up to where it takes the mutex or calls setSpeed();
\* main() goes on at `next` when it has returned
Dispatch(line, next) ==
    LET input == CutAt(CutAt(line, "\n"), "\r")
    IN  /\ cmd' = line
        /\ was' = St
        /\ ncmds' = ncmds + 1
        /\ IF input = <<"r", "p", "m">>
           THEN /\ pc' = "cmd_lock"
                /\ ret_pc' = next
                /\ UNCHANGED << ctl, speed_arg >>
           ELSE IF input = <<"o", "n">> /\ g_motor_on = 0
           THEN /\ Assign(motorOnEnter(St))
                /\ speed_arg' = g_speed'
                /\ pc' = "ss_store"
                /\ ret_pc' = next
           ELSE IF /\ ~manualBlocked(St)
                   /\ Len(input) >= 2
                   /\ input[1] = "s"
                   /\ input[2] = " "
           THEN /\ speed_arg' = atoi(SubSeq(input, 3, Len(input)))
                /\ pc' = "ss_store"
                /\ ret_pc' = next
                /\ UNCHANGED ctl
           ELSE /\ Assign(processCommand(St, line))
                /\ pc' = next
                /\ UNCHANGED << ret_pc, speed_arg >>

\* select() returns with the set of ready descriptors, or fails
ThreadSelect ==
    /\ pc = "loop"
    /\ g_quit = 0
    /\ \/ /\ rd_stdin' \in BOOLEAN
          /\ rd_pipe' \in (IF g_pipe_fd # -1 THEN BOOLEAN ELSE {FALSE})
          /\ ready' = (IF rd_stdin' THEN 1 ELSE 0) + (IF rd_pipe' THEN 1 ELSE 0)
          /\ pc' = "stdin"
       \/ /\ pc' = "cleanup"
          /\ UNCHANGED sel
    /\ UNCHANGED << ctl, g_current_rpm, pipes, hist, tick, ncycles, quiet, ble, pid_changed, est, recon,
                    thr >>

\* keyboard input
ThreadStdin ==
    /\ pc = "stdin"
    /\ IF ready > 0 /\ rd_stdin
       THEN \/ /\ pc' = "cleanup"
               /\ UNCHANGED << ctl, cmd, was, ncmds, ret_pc, speed_arg >>
            \/ \E line \in ThreadLines : Dispatch(line, "pipe")
       ELSE /\ pc' = "pipe"
            /\ UNCHANGED << ctl, cmd, was, ncmds, ret_pc, speed_arg >>
    /\ UNCHANGED << g_current_rpm, pipes, sel, pipe_eof, pid_call,
                    write_failed, tick, ncycles, quiet, ble, pid_changed, est, recon, rpm_pc, g_rpm_mutex,
                    sig_pc >>

\* pipe input
ThreadPipe ==
    /\ pc = "pipe"
    /\ IF g_pipe_fd # -1 /\ ready > 0 /\ rd_pipe
       THEN \/ /\ Assign(pipeClosed(St))
               /\ closePipe
               /\ pipe_eof' = [ seen |-> TRUE, console |-> cmd,
                                on |-> g_motor_on, mode |-> g_control_mode ]
               /\ pc' = "reconnect"
               /\ UNCHANGED << cmd, was, ncmds, ret_pc, speed_arg >>
            \/ /\ \E line \in ThreadLines : Dispatch(line, "reconnect")
               /\ UNCHANGED << g_pipe_fd, g_pipe_stream, pipe_eof >>
       ELSE /\ pc' = "reconnect"
            /\ UNCHANGED << ctl, g_pipe_fd, g_pipe_stream, pipe_eof, cmd, was,
                            ncmds, ret_pc, speed_arg >>
    /\ UNCHANGED << g_current_rpm, g_rpm_pipe_fd, g_rpm_pipe_stream,
                    pipe_reconnect_timer, rpm_reconnect_timer, sel, pid_call,
                    write_failed, tick, ncycles, quiet, ble, pid_changed, est, recon, rpm_pc, g_rpm_mutex,
                    sig_pc >>

\* if (ready == 0) is false
PeriodicSkip ==
    /\ pc = "periodic"
    /\ ready # 0
    /\ pc' = "rpm_reconnect"
    /\ UNCHANGED << ctl, loopOnly, g_rpm_mutex, ret_pc, speed_arg >>

\* if (ready == 0): lock, copy, unlock, then the PID controller
PeriodicLock ==
    /\ ready = 0
    /\ mainLock("periodic", "per_read")

PeriodicRead == mainRead("per_read", "per_unlock")
PeriodicUnlock == mainUnlock("per_unlock", "pid")
PeriodicPid == PeriodicAt("pid")

\* SIGINT or SIGTERM: cleanup() runs as the handler, on top of whatever
\* main() was doing
ThreadSignal ==
    /\ pc \notin {"cleanup", "join", "exited"}
    /\ sig_pc' = pc
    /\ cleanupTo("join")

\* main() left its loop: cleanup(0)
ThreadLoopEnd ==
    /\ pc = "cleanup"
    /\ cleanupTo("join")
    /\ UNCHANGED sig_pc

\* pthread_join() returns at once, whatever rpmThread() does
joinedAtOnce == TRUE

\* pthread_join(g_rpm_thread, NULL) returns when rpmThread() has returned
joined == rpm_pc = "done"

\* pthread_join(), gpioTerminate(), exit(0)
Join ==
    /\ pc = "join"
    /\ joined
    /\ pc' = "exited"
    /\ UNCHANGED << ctl, loopOnly, g_rpm_mutex, ret_pc, speed_arg >>

rpmStep ==
    \/ rpmThreadLoop
    \/ rpmThreadStore
    \/ rpmThreadUnlock

mainStep ==
    \/ ThreadSelect
    \/ ThreadStdin
    \/ ThreadPipe
    \/ CmdRead
    \/ CmdUnlock
    \/ CmdPrint
    \/ SetSpeedStore
    \/ SetSpeedFlag
    \/ SetSpeedPwm
    \/ SetSpeedLed
    \/ Reconnect
    \/ PeriodicSkip
    \/ PeriodicRead
    \/ PeriodicUnlock
    \/ PeriodicPid
    \/ Status
    \/ RpmReconnect
    \/ CycleEnd
    \/ LoopQuit
    \/ ThreadLoopEnd
    \/ Join

ThreadNext ==
    \/ rpmStep
    \/ rpmThreadLock
    \/ mainStep
    \/ CmdLock
    \/ PeriodicLock
    \/ ThreadSignal

\* The statements of setSpeed() and of the `rpm` command add up to what
\* processCommand() does in one step
GrainsAgree ==
    (pc \in {"pipe", "reconnect"} /\ cmd # <<>> /\ ~pipe_eof.seen) =>
        St = processCommand(was, cmd)

\* Both threads keep running; a thread waiting for the mutex gets it, since
\* the other holds it for one assignment at a time
ThreadSpec ==
    /\ ThreadInit
    /\ [][ThreadNext]_vars
    /\ WF_vars(mainStep)
    /\ WF_vars(rpmStep)
    /\ SF_vars(rpmThreadLock)
    /\ SF_vars(CmdLock)
    /\ SF_vars(PeriodicLock)

----------------------------------------------------------------------------
(* rpmThread() by itself: the edge detector, the circular buffer and the   *)
(* estimate over the 500 ms window, one loop iteration in three steps.     *)
(* main() stands still.                                                    *)

\* RPM_CALCULATION_WINDOW_MS * 1000 = 500000 microseconds
RPM_CALCULATION_WINDOW_US == <<7, 41248>>
\* RPM_UPDATE_INTERVAL_MS * 1000 = 100000 microseconds
RPM_UPDATE_INTERVAL_US == <<1, 34464>>
NUM_BLADES == 3

\* levels of the sensor pin
Levels == {0, 1}

\* what the memory of pulse_times[] holds before the first edge is stored
StackGarbage == { U32Zero, U32Max }

\* microseconds from one gpioTick() of the loop to the next: usleep(100), or
\* the thread is scheduled late; the last is a process that was stopped for
\* 100 microseconds less than one round of the counter (71.6 min)
SampleTimes == { <<0, 100>>, <<1, 34464>>, <<3, 53392>>, <<65535, 65436>> }

EstInit ==
    /\ quiet = 0
    /\ InitMain
    /\ InitThread
    /\ last_state \in Levels
    /\ \E g \in StackGarbage : pulse_times = [i \in 0 .. PulseSlots - 1 |-> g]

\* an edge: store the tick, advance the index, count up to the buffer size
rpmThreadSample ==
    /\ rpm_pc = "loop"
    /\ g_quit = 0
    /\ nsamples < MaxSamples
    /\ \E current_state \in Levels :
          /\ IF last_state # current_state
             THEN /\ g_pulse_count' = g_pulse_count + 1
                  /\ era' = [era EXCEPT !.slot[pulse_index] = era.now]
                  /\ pulse_times' = [pulse_times EXCEPT ![pulse_index] = tick]
                  /\ pulse_index' = (pulse_index + 1) % PulseSlots
                  /\ pulse_count' = (IF pulse_count < PulseSlots
                                     THEN pulse_count + 1 ELSE pulse_count)
             ELSE UNCHANGED << g_pulse_count, pulse_times, pulse_index,
                               pulse_count, era >>
          /\ last_state' = current_state
    /\ rpm_pc' = "update"
    /\ UNCHANGED << mainOnlyButEst, g_current_rpm, g_rpm_mutex, last_update,
                    nsamples, recomputed >>

\* elapsed = current_time - last_update, or across the overflow
updateElapsed(current_time, last) ==
    IF U32Lt(current_time, last)
    THEN U32Add(U32Sub(U32Max, last), current_time)
    ELSE U32Sub(current_time, last)

\* the test of the window scan on one stored tick
inWindow(current_time, pulse_time) ==
    /\ ~U32Lt(current_time, pulse_time)
    /\ ~U32Lt(RPM_CALCULATION_WINDOW_US, U32Sub(current_time, pulse_time))

\* the scan runs over the whole buffer
count_to_checkWholeBuffer == PulseSlots

count_to_check == IF pulse_count < PulseSlots THEN pulse_count ELSE PulseSlots

\* the slot the scan reads at step i
scanSlot(i) == (pulse_index + PulseSlots - count_to_check + i) % PulseSlots

pulses_in_window(current_time) ==
    Cardinality({ i \in 0 .. count_to_check - 1 :
                    inWindow(current_time, pulse_times[scanSlot(i)]) })

\* an empty log gives one pulse
rpmEstimateNeverZero(current_time) ==
    IF pulse_count > 0
    THEN (2 * 120 * pulses_in_window(current_time)) \div NUM_BLADES
    ELSE (2 * 120) \div NUM_BLADES

\* (pulses_in_window / NUM_BLADES) * (60.0 / 0.5) in half-RPMs, or 0.0
rpmEstimate(current_time) ==
    IF pulse_count > 0
    THEN (2 * 120 * pulses_in_window(current_time)) \div NUM_BLADES
    ELSE 0

\* every RPM_UPDATE_INTERVAL_MS: store the estimate
rpmThreadUpdate ==
    /\ rpm_pc = "update"
    /\ LET last == IF last_update = U32Zero THEN tick ELSE last_update
       IN  IF ~U32Lt(updateElapsed(tick, last), RPM_UPDATE_INTERVAL_US)
           THEN /\ g_current_rpm' = rpmEstimate(tick)
                /\ last_update' = tick
                /\ recomputed' = TRUE
           ELSE /\ last_update' = last
                /\ recomputed' = FALSE
                /\ UNCHANGED g_current_rpm
    /\ rpm_pc' = "sleep"
    /\ UNCHANGED << mainOnlyButEst, g_rpm_mutex, last_state, pulse_times,
                    pulse_count, pulse_index, nsamples, g_pulse_count, era >>

\* usleep(100)
rpmThreadSleep ==
    /\ rpm_pc = "sleep"
    /\ \E dt \in SampleTimes : tick' = U32Add(tick, dt)
    /\ era' = [era EXCEPT !.now = IF U32Lt(tick', tick) THEN @ + 1 ELSE @]
    /\ rpm_pc' = "loop"
    /\ nsamples' = nsamples + 1
    /\ UNCHANGED << ctl, pipes, sel, hist, pc, ncycles, quiet, ble, pid_changed, recon, ret_pc,
                    speed_arg, sig_pc, g_current_rpm, g_rpm_mutex, last_state,
                    pulse_times, pulse_count, pulse_index, last_update,
                    recomputed, g_pulse_count >>

EstNext ==
    \/ rpmThreadSample
    \/ rpmThreadUpdate
    \/ rpmThreadSleep

EstSpec == EstInit /\ [][EstNext]_vars

----------------------------------------------------------------------------
(* pidController() on its own: one call from any values of the globals it  *)
(* reads and any arguments.  In main()'s loop the call is guarded by       *)
(* g_motor_on, and no statement of the program leaves g_speed at 0 with    *)
(* the motor enabled; the function itself takes g_speed as it finds it.    *)

\* g_speed before the call
PidSpeeds == {0, 1, 18, 19, 20, 50, 99, 100}

\* current_rpm and desired_rpm of the call, in half-RPMs
PidRpms == {0, 70, 240, 1080}
PidTargets == {0, 80, 240}

\* g_pid_integral and g_pid_last_error before the call, in half-RPMs
PidIntegrals == {-100, 0}
PidLastErrors == {0, 80}

\* g_last_speed_change_time before the call, and gpioTick() at the call
PidStamps == { U32Zero, <<0, 1>> }
PidTicks == { <<0, 2>>, <<7, 41249>> }

PidInit ==
    /\ quiet = 0
    /\ g_speed \in PidSpeeds
    /\ g_motor_on = 1
    /\ g_direction = 1
    /\ g_quit = 0
    /\ g_control_mode = 1
    /\ g_desired_rpm \in PidTargets
    /\ g_pid_integral \in PidIntegrals
    /\ g_pid_last_error \in PidLastErrors
    /\ g_last_speed_change_time \in PidStamps
    /\ g_current_rpm \in PidRpms
    /\ g_pipe_fd = -1
    /\ g_pipe_stream = FALSE
    /\ g_rpm_pipe_fd = -1
    /\ g_rpm_pipe_stream = FALSE
    /\ pipe_reconnect_timer = 0
    /\ rpm_reconnect_timer = 0
    /\ pwm = (g_speed * 255) \div 100
    /\ in1 = 1
    /\ in2 = 0
    /\ led = 1
    /\ tick \in PidTicks
    /\ pc = "periodic"
    /\ ready = 0
    /\ rd_stdin = FALSE
    /\ rd_pipe = FALSE
    /\ ncycles = 0
    /\ cmd = <<>>
    /\ was = NoSnap
    /\ pipe_eof = NoEof
    /\ pid_call = NoCall
    /\ pid_changed = NoChange
    /\ write_failed = "no"
    /\ ncmds = 0
    /\ rpm_pc = "loop"
    /\ g_rpm_mutex = "none"
    /\ ret_pc = "none"
    /\ speed_arg = 0
    /\ sig_pc = "none"
    /\ recon = NoRecon
    /\ BridgeIdle
    /\ InitThread
    /\ last_state = 0
    /\ pulse_times = [i \in 0 .. PulseSlots - 1 |-> U32Zero]

\* pidController(g_current_rpm, g_desired_rpm) is called and returns
pidControllerCall ==
    /\ pc = "periodic"
    /\ \E skew \in TickSkew :
          LET r == pidController(St, g_current_rpm, g_desired_rpm,
                                 tick, U32Add(tick, skew))
          IN  /\ Assign(r.s)
              /\ pid_call' =
                    [ called |-> TRUE, cur |-> g_speed, ret |-> r.ret,
                      path |-> r.path, target |-> g_desired_rpm,
                      armed |-> g_last_speed_change_time # U32Zero ]
    /\ was' = St
    /\ pc' = "status"
    /\ UNCHANGED << g_current_rpm, pipes, sel, cmd, pipe_eof, pid_changed,
                    write_failed, ncmds, tick, ncycles, quiet, ble, est, recon,
                    thr >>

PidNext == pidControllerCall

PidSpec == PidInit /\ [][PidNext]_vars

----------------------------------------------------------------------------
(* Properties *)

OffLine == <<"o", "f", "f", "\n">>

\* `+`, `-` and `s N` lines, those of Lines and more
ManualSpeedLines ==
    { <<"+", "\r", "\n">>,
      <<"+", "\n">>,
      <<"-", "\n">>,
      <<"s", " ", "9", "9", "\n">>,
      <<"s", " ", "0", "\n">>,
      <<"s", " ", "-", "5", "\n">>,
      <<"s", " ", "1", "5", "0", "\n">>,
      <<"s", " ", "a", "b", "c", "\n">> }

AutoLines == { l \in Lines : HasPrefix(l, <<"a", "u", "t", "o", " ">>) }

\* lines that are no well-formed command
MalformedLines ==
    { <<"x", "y", "z", "\n">>,
      <<"s", " ", "a", "b", "c", "\n">>,
      <<"a", "u", "t", "o", " ", "x", "\n">> }

SafeStopped == g_motor_on = 0 /\ pwm = 0 /\ g_control_mode = 0

(* C1: when a cycle reads end-of-stream on the command pipe, the motor is  *)
(* off, PWM is 0 and the mode is Manual from that step to the end of the   *)
(* cycle, and the pipe is still closed when the reconnect step comes.      *)
C1_EofSafeStop ==
    pipe_eof.seen =>
        /\ SafeStopped
        /\ pc = "reconnect" => (g_pipe_fd = -1 /\ ~g_pipe_stream)

C1_Witness ==
    /\ pipe_eof.seen
    /\ pipe_eof.on = 1
    /\ pipe_eof.mode = 1
    /\ pipe_eof.console # <<>>
    /\ pc = "end"

(* C2: in every state between two operations, a motor whose enabled flag   *)
(* is false has PWM duty 0.                                                *)
C2_DisabledMeansPwmZero == g_motor_on = 0 => pwm = 0

C2_Witness ==
    /\ g_motor_on = 0
    /\ g_speed > 0
    /\ g_control_mode = 1
    /\ pc = "loop"

(* C3: motorOff(), from any state, leaves PWM 0, both direction outputs    *)
(* low, the indicator off and the enabled flag false.                      *)
C3_MotorOffHardStop ==
    /\ LET s == motorOff(St)
       IN  s.pwm = 0 /\ s.in1 = 0 /\ s.in2 = 0 /\ s.led = 0 /\ s.motor_on = 0
    /\ (cmd = OffLine \/ pc = "exited" \/ (pipe_eof.seen /\ pc = "reconnect"))
          => (pwm = 0 /\ in1 = 0 /\ in2 = 0 /\ led = 0 /\ g_motor_on = 0)

C3_Witness ==
    /\ cmd = OffLine
    /\ was.motor_on = 1
    /\ was.pwm > 0
    /\ was.in2 = 1
    /\ was.mode = 1

C5_AutoRejectsManualSpeed ==
    /\ (cmd \in ManualSpeedLines /\ was.mode = 1) => St = was
    /\ g_control_mode = 1 =>
          \A l \in ManualSpeedLines : processCommand(St, l) = St

C5_Witness ==
    /\ cmd \in ManualSpeedLines
    /\ was.mode = 1
    /\ was.motor_on = 1

(* C6, as claimed: every PID call of the control loop returns a speed      *)
(* within MAX_SPEED_CHANGE of the current speed.                           *)
C6_PidStepBounded ==
    pid_call.called =>
        Abs(pid_call.ret - pid_call.cur) <= MAX_SPEED_CHANGE

(* C6, amended: every PID call of the control loop with a target of at     *)
(* least 1.0 returns a speed within MAX_SPEED_CHANGE of the current speed. *)
C6_PidStepBoundedForTarget ==
    (pid_call.called /\ pid_call.target >= 2) =>
        Abs(pid_call.ret - pid_call.cur) <= MAX_SPEED_CHANGE

C6_Witness ==
    /\ pid_call.called
    /\ pid_call.target >= 2
    /\ pid_call.path = "computed"
    /\ pid_call.ret = pid_call.cur + MAX_SPEED_CHANGE

(* C7: every value the PID controller returns lies in 0..100, on each of   *)
(* its return paths.                                                       *)
C7_PidOutputInRange ==
    pid_call.called => (pid_call.ret >= 0 /\ pid_call.ret <= 100)

C7_Witness ==
    /\ pid_call.called
    /\ pid_call.path = "computed"
    /\ pid_call.cur = 99
    /\ pid_call.ret = 100

(* C8: a PID call with a target below 1.0 returns 0 and leaves the         *)
(* integral 0, the last error 0 and the stabilization timer unset,         *)
(* whatever the state before.                                              *)
C8_StopResetsPid ==
    /\ (pid_call.called /\ pid_call.target < 2
            /\ pc \in {"status", "rpm_reconnect", "end"}) =>
          /\ pid_call.ret = 0
          /\ g_pid_integral = 0
          /\ g_pid_last_error = 0
          /\ g_last_speed_change_time = U32Zero
    /\ \A d \in {0, 1} :
          LET r == pidController(St, g_current_rpm, d, tick, tick)
          IN  /\ r.ret = 0
              /\ r.s.integral = 0
              /\ r.s.last_error = 0
              /\ r.s.last_change = U32Zero

C8_Witness ==
    /\ pid_call.called
    /\ pid_call.target < 2
    /\ pid_call.armed
    /\ pid_call.cur > 0
    /\ pc = "status"

(* C9: right after an `auto N` line is processed the whole PID state is    *)
(* reset: integral 0, last error 0, stabilization timer unset.             *)
C9_AutoResetsPidState ==
    cmd \in AutoLines =>
        /\ g_pid_integral = 0
        /\ g_pid_last_error = 0
        /\ g_last_speed_change_time = U32Zero

(* C10: a line that is no well-formed command leaves speed, enabled flag,  *)
(* direction, mode, target and PID state as they were.                     *)
C10_MalformedChangesNothing ==
    cmd \in MalformedLines => St = was

(* C12: in one cycle of the control loop at most one line is handed to     *)
(* processCommand, also when the console and the command pipe are both     *)
(* ready.                                                                  *)
C12_AtMostOneCommandPerCycle == ncmds <= 1

(* C13: when the signal handler has run, and when the end-of-stream branch *)
(* of the command pipe has run, the motor is disabled with PWM 0 and the   *)
(* mode is Manual.                                                         *)
C13_FaultForcesSafeState ==
    [][ ( \/ pc \notin {"cleanup", "exited"} /\ pc' = "exited"
          \/ ~pipe_eof.seen /\ pipe_eof'.seen ) => SafeStopped' ]_vars

\* arguments of setSpeed(): below, at, inside and above the range
SpeedArgs == {-1000, -1, 0, 50, 100, 101, 1000}

PlusLine == <<"+", "\r", "\n">>
SetLine == <<"s", " ", "9", "9", "\n">>
OnLine == <<"o", "n", "\n">>

(* C18: after setSpeed(x) the stored speed is clamp(x, 0, 100), from every *)
(* state and for every x, also as the second of two calls made where the   *)
(* loop dispatches commands; and so it is after the `s N` and `+` lines    *)
(* the loop handles in Manual mode.                                        *)
C18_SetSpeedStoresClamp ==
    /\ \A x \in SpeedArgs : setSpeed(St, x).speed = Clamp(x, 0, 100)
    /\ pc = "stdin" =>
          \A x \in {-1, 50, 1000}, y \in SpeedArgs :
             setSpeed(setSpeed(St, x), y).speed = Clamp(y, 0, 100)
    /\ (cmd = SetLine /\ was.mode = 0) => g_speed = 99
    /\ (cmd = PlusLine /\ was.mode = 0) =>
          g_speed = Clamp(was.speed + 10, 0, 100)

C18_Witness ==
    /\ cmd = PlusLine
    /\ was.mode = 0
    /\ was.speed = 99
    /\ g_speed = 100

(* C19: a second `off` right after an `off` changes nothing: stored speed, *)
(* direction, enabled flag, PWM, both direction outputs and the indicator  *)
(* are what the first left.                                                *)
C19_OffIdempotent ==
    /\ LET s1 == processCommand(St, OffLine)
       IN  processCommand(s1, OffLine) = s1
    /\ (cmd = OffLine /\ was = processCommand(was, OffLine)) => St = was

C19_Witness ==
    /\ cmd = OffLine
    /\ was.motor_on = 0
    /\ was.speed > 0
    /\ was.mode = 0
    /\ was.in1 = 0
    /\ was.in2 = 0

(* C20: motorOn() twice leaves what motorOn() once leaves; from a disabled *)
(* motor one call leaves it enabled at the stored speed (50 if that was    *)
(* 0), the direction outputs set from the stored direction and the PWM     *)
(* set from that speed.                                                    *)
C20_MotorOnIdempotent ==
    /\ motorOn(motorOn(St)) = motorOn(St)
    /\ g_motor_on = 0 =>
          LET s == motorOn(St)
              v == IF g_speed = 0 THEN 50 ELSE g_speed
          IN  /\ s.motor_on = 1
              /\ s.speed = v
              /\ s.pwm = (v * 255) \div 100
              /\ s.direction = g_direction
              /\ s.in1 = (IF g_direction = 1 THEN 1 ELSE 0)
              /\ s.in2 = (IF g_direction = 1 THEN 0 ELSE 1)
    /\ (cmd = OnLine /\ was.motor_on = 1) => St = was
    /\ (cmd = OnLine /\ was.motor_on = 0) =>
          /\ St = motorOn(was)
          /\ g_motor_on = 1
          /\ g_speed = (IF was.speed = 0 THEN 50 ELSE was.speed)

C20_Witness ==
    /\ cmd = OnLine
    /\ was.motor_on = 0
    /\ was.speed = 0
    /\ was.direction = 0
    /\ g_speed = 50
    /\ in2 = 1

\* main() is in its loop
LoopRunning == pc \notin {"cleanup", "join", "exited"}

\* main() has entered the `if (ready == 0)` block of this cycle and is at
\* sendRPM()
PeriodicWorkDone == pc = "status" /\ ready = 0

(* C11: as long as main() is in its loop, the periodic work (the PID step  *)
(* and the RPM status line) is reached again and again, whatever input is  *)
(* ready.                                                                  *)
C11_PeriodicWorkRecurs == []<>(~LoopRunning \/ PeriodicWorkDone)

\* the positions of main() inside setSpeed(), after its first statement
SetSpeedPcs == {"ss_flag", "ss_pwm", "ss_led"}

(* C14: when the process has exited, the PWM duty is 0, both direction     *)
(* outputs are low and the enabled flag is clear, also when the signal     *)
(* handler cut in inside setSpeed().                                       *)
C14_ShutdownDuringSetSpeed ==
    pc \in {"join", "exited"} =>
        (pwm = 0 /\ in1 = 0 /\ in2 = 0 /\ g_motor_on = 0)

C14_Witness ==
    /\ pc = "exited"
    /\ sig_pc = "ss_pwm"
    /\ speed_arg = 50
    /\ g_speed = 50
    /\ g_direction = 1

\* the positions where main() is in a call that does I/O: select(), fgets(),
\* printf(), sendRPM(), open(), gpioPWM(), gpioWrite(), the calls of cleanup()
MainIoPcs ==
    {"loop", "stdin", "pipe", "cmd_print", "reconnect", "status",
     "rpm_reconnect", "ss_flag", "ss_pwm", "ss_led", "cleanup", "join",
     "exited"}

(* C15: g_current_rpm is read and written with the mutex held by the       *)
(* thread that does it, no read meets a write, and no thread holds the     *)
(* mutex while it is in an I/O call.                                       *)
C15_RpmValueLocked ==
    /\ pc \in {"cmd_read", "per_read"} => g_rpm_mutex = "main"
    /\ rpm_pc = "store" => g_rpm_mutex = "rpm"
    /\ ~(pc \in {"cmd_read", "per_read"} /\ rpm_pc = "store")
    /\ pc \in MainIoPcs => g_rpm_mutex # "main"
    /\ rpm_pc \in {"loop", "lock", "done"} => g_rpm_mutex # "rpm"

\* the same, as long as no signal handler has run
RpmValueLockedOutsideHandler == sig_pc = "none" => C15_RpmValueLocked

QuitByCommand == g_quit = 1 /\ LoopRunning

\* the process has exited with rpmThread() returned and the motor off
ExitedMotorOff ==
    /\ pc = "exited"
    /\ rpm_pc = "done"
    /\ pwm = 0
    /\ in1 = 0
    /\ in2 = 0

(* C17: once `q` is handled, main() enters no periodic work any more, and  *)
(* the process exits with rpmThread() returned, PWM 0 and both direction   *)
(* outputs low, whatever is handled later in the same cycle.               *)
C17_QuitTerminates ==
    /\ [](QuitByCommand =>
            pc \notin {"per_read", "per_unlock", "pid", "status"})
    /\ QuitByCommand ~> ExitedMotorOff

\* the same, for the runs where no signal arrives after `q`
QuitTerminatesUnlessSignalled ==
    /\ [](QuitByCommand =>
            pc \notin {"per_read", "per_unlock", "pid", "status"})
    /\ QuitByCommand ~> (sig_pc # "none" \/ ExitedMotorOff)

(* C21: as long as no edge has been recorded, g_current_rpm is 0 after     *)
(* every recomputation, at any tick, also after the tick has wrapped.      *)
C21_EmptyLogGivesZero == pulse_count = 0 => g_current_rpm = 0

\* a recomputation on an empty log right after the tick wrapped
C21_Witness ==
    /\ rpm_pc = "sleep"
    /\ recomputed
    /\ pulse_count = 0
    /\ tick = <<0, 50000>>

\* age = now >= t ? now - t : (MAX_TICK - t) + now
Age(now, t) ==
    IF U32Lt(now, t) THEN U32Add(U32Sub(U32Max, t), now) ELSE U32Sub(now, t)

\* the slots that hold the edge log
LogSlots == { scanSlot(i) : i \in 0 .. count_to_check - 1 }

\* the edges of the log whose age at `now` is within the window
EdgesWithin(now) ==
    { j \in LogSlots : ~U32Lt(RPM_CALCULATION_WINDOW_US, Age(now, pulse_times[j])) }

\* rpmThread() has just stored an estimate for the tick `tick`
JustRecomputed == rpm_pc = "sleep" /\ recomputed

(* C22: with k edges of the log within the 500 ms window at the query      *)
(* time, the estimate times 3 is k times 120 (both in half-RPMs here).     *)
C22_EstimateCountsWindow ==
    JustRecomputed =>
        g_current_rpm * NUM_BLADES = 2 * 120 * Cardinality(EdgesWithin(tick))

\* the same, for the query times that no edge of the log lies ahead of
EstimateCountsWindowUnwrapped ==
    (JustRecomputed /\ \A j \in LogSlots : ~U32Lt(tick, pulse_times[j])) =>
        g_current_rpm * NUM_BLADES = 2 * 120 * Cardinality(EdgesWithin(tick))

(* C23: an age is taken across the wrap of the tick: the PID gate's       *)
(* elapsed time for now = 5, t = 4294967290 is 10, and the window scan     *)
(* counts a stored edge that lies ahead of the query time when its age     *)
(* (MAX_TICK - t) + now is at most 500 ms.                                 *)
C23_AgesWraparoundSafe ==
    /\ PidElapsed(<<0, 5>>, <<65535, 65530>>) = <<0, 10>>
    /\ JustRecomputed =>
          \A j \in LogSlots :
              ( /\ U32Lt(tick, pulse_times[j])
                /\ ~U32Lt(RPM_CALCULATION_WINDOW_US, Age(tick, pulse_times[j])) )
              => inWindow(tick, pulse_times[j])

\* `auto N` lines with the N they carry, in half-RPMs
AutoTargets ==
    { << <<"a", "u", "t", "o", " ", "1", "2", "0", "\n">>, 240 >>,
      << <<"a", "u", "t", "o", " ", "0", ".", "5", "\n">>, 1 >>,
      << <<"a", "u", "t", "o", " ", "0", "\n">>, 0 >>,
      << <<"a", "u", "t", "o", " ", "-", "5", "\n">>, -10 >>,
      << <<"a", "u", "t", "o", " ", "1", "0", "0", "0", "0", "\n">>, 20000 >>,
      << <<"a", "u", "t", "o", " ", "1", "0", "0", "0", "1", "\r", "\n">>, 20002 >>,
      << <<"a", "u", "t", "o", " ", "9", "9", "9", "9", "9", "\n">>, 199998 >> }

\* what `auto N` has to leave, for the state s before and r after
AutoDone(s, r, n) ==
    LET target == IF n < 0 THEN 0 ELSE IF n > 2 * 10000 THEN 2 * 10000 ELSE n
    IN  /\ r.mode = 1
        /\ r.desired = target
        /\ target = 0 =>
              (r.motor_on = 0 /\ r.pwm = 0 /\ r.in1 = 0 /\ r.in2 = 0)
        /\ (target > 0 /\ s.motor_on = 0) =>
              /\ r.motor_on = 1
              /\ r.speed = (IF s.speed = 0 THEN 30 ELSE s.speed)
              /\ r.pwm = (r.speed * 255) \div 100
              /\ r.in1 = (IF s.direction = 1 THEN 1 ELSE 0)
              /\ r.in2 = (IF s.direction = 1 THEN 0 ELSE 1)

(* C24: from either mode, `auto N` leaves the mode Automatic and the       *)
(* target clamp(N, 0, 10000); a target of 0 stops the motor (PWM 0, both   *)
(* direction outputs low, flag clear), and a positive target with the      *)
(* motor off enables it at the stored speed, or at 30 when that was 0.     *)
C24_AutoSetsModeAndTarget ==
    /\ pc = "stdin" =>
          \A a \in AutoTargets : AutoDone(St, processCommand(St, a[1]), a[2])
    /\ (/\ pc \in {"pipe", "reconnect"}
        /\ ~pipe_eof.seen
        /\ \E a \in AutoTargets : a[1] = cmd) =>
          \A a \in AutoTargets : a[1] = cmd => AutoDone(was, St, a[2])

\* `auto 120` has been handled in Manual mode, after `s 99` and `off`
C24_Witness ==
    /\ pc = "pipe"
    /\ cmd = <<"a", "u", "t", "o", " ", "1", "2", "0", "\n">>
    /\ was.mode = 0
    /\ was.motor_on = 0
    /\ was.speed = 99
    /\ g_control_mode = 1
    /\ g_desired_rpm = 240
    /\ g_motor_on = 1
    /\ g_speed = 99

\* each pipe is found closed for at most 9 cycles in a row without open()
\* being called, open() is called on the 10th, and a closed pipe has neither
\* descriptor nor stream; the reconnect steps are never blocked
ReconnectCadence ==
    /\ recon.pipe_tried \in {0, 10}
    /\ recon.rpm_tried \in {0, 10}
    /\ recon.pipe_wait < 10
    /\ recon.rpm_wait < 10
    /\ g_pipe_fd = -1 <=> ~g_pipe_stream
    /\ g_rpm_pipe_fd = -1 <=> ~g_rpm_pipe_stream
    /\ pc = "reconnect" => ENABLED Reconnect
    /\ pc = "rpm_reconnect" => ENABLED RpmReconnect

\* a reconnect step leaves motor, mode and PID state alone, and an open pipe
\* as it is, without calling open()
ReconnectFrame ==
    /\ (pc = "reconnect" /\ pc' = "periodic") =>
          /\ St' = St
          /\ g_pipe_fd # -1 =>
                /\ UNCHANGED << g_pipe_fd, g_pipe_stream >>
                /\ recon'.pipe_tried = 0
    /\ (pc = "rpm_reconnect" /\ pc' = "end") =>
          /\ St' = St
          /\ g_rpm_pipe_fd # -1 =>
                /\ UNCHANGED << g_rpm_pipe_fd, g_rpm_pipe_stream >>
                /\ recon'.rpm_tried = 0

(* C25: while a pipe is closed, open() is called once every 10 cycles that *)
(* reach its reconnect block, and never while the pipe is open; a failed   *)
(* call leaves the pipe closed and motor, mode and PID state as they were; *)
(* the reconnect step never waits.                                         *)
C25_ReconnectEveryTenCycles == []ReconnectCadence /\ [][ReconnectFrame]_vars

\* the second call of open() for the command pipe in a row has failed, ten
\* cycles after the first
C25_Witness ==
    /\ pc = "periodic"
    /\ ncycles = 20
    /\ recon.pipe_tried = 10
    /\ recon.pipe_wait = 0
    /\ g_pipe_fd = -1
    /\ recon.rpm_wait = 9

(* C26: when the write of a status line to the open RPM pipe fails, the   *)
(* pipe is closed in that call of sendRPM(): descriptor and stream are     *)
(* cleared, so that no status is written and the reconnect count runs      *)
(* until open() succeeds again.                                            *)
C26_WriteFailureClosesPipe ==
    (write_failed # "no" /\ pc \in {"rpm_reconnect", "end"}) =>
        /\ g_rpm_pipe_fd = -1
        /\ ~g_rpm_pipe_stream
        /\ pc = "end" => rpm_reconnect_timer = 1

\* main() passes the PID block of lines 822-828
PidBlockStep == pc = "periodic" /\ pc' = "status"

\* main() passes sendRPM() and the status display of lines 830-853
StatusStep == pc = "status" /\ pc' = "rpm_reconnect"

\* stored speed, PWM duty, enabled flag and the controller's state
PidFrame ==
    << g_speed, pwm, g_motor_on, g_pid_integral, g_pid_last_error,
       g_last_speed_change_time >>

\* a controller call is on record only in a timeout cycle, past the PID block
PidCallOnlyOnTimeout ==
    pid_call.called =>
        (ready = 0 /\ pc \in {"status", "rpm_reconnect", "end"})

\* the PID block calls the controller only in Automatic mode with the motor
\* enabled; in Manual mode or with the motor disabled it changes nothing of
\* the frame, and the rest of the periodic work never does
PidGuardAndFrame ==
    /\ PidBlockStep =>
          /\ pid_call'.called =>
                 (ready = 0 /\ g_control_mode = 1 /\ g_motor_on # 0)
          /\ (g_control_mode = 0 \/ g_motor_on = 0) =>
                 (UNCHANGED PidFrame /\ ~pid_call'.called)
    /\ StatusStep => UNCHANGED << PidFrame, pid_call >>

(* C27: the loop calls the PID controller only in timeout cycles with the  *)
(* mode Automatic and the motor enabled; in a cycle with the mode Manual   *)
(* or the motor disabled, the periodic work leaves stored speed, PWM,      *)
(* enabled flag, integral, last error and stabilization stamp unchanged.   *)
C27_PidOnlyInAutoEnabled ==
    []PidCallOnlyOnTimeout /\ [][PidGuardAndFrame]_vars

\* a timeout cycle in Manual mode with the motor running and a target left
\* over from an earlier `auto`: the PID block was passed without a call
C27_Witness ==
    /\ pc = "status"
    /\ ready = 0
    /\ g_control_mode = 0
    /\ g_motor_on = 1
    /\ g_desired_rpm > 0
    /\ g_speed = 30
    /\ ~pid_call.called

\* the time from t to now on the wrapping 32-bit tick counter
TicksSince(now, t) == U32Sub(now, t)

\* the stabilization gate is active at `now`: a stamp is set and lies less
\* than 500 ms back
GateActive(now) ==
    /\ g_last_speed_change_time # U32Zero
    /\ U32Lt(TicksSince(now, g_last_speed_change_time),
             RPM_STABILIZE_DELAY_US)

\* a controller call of the loop with a target of at least 1.0 while the
\* gate is active
GatedCall ==
    /\ PidBlockStep
    /\ pidDue(ready, g_control_mode, g_motor_on)
    /\ g_desired_rpm >= 2
    /\ GateActive(tick)

(* C28: a PID call with a target of at least 1.0 while the stabilization   *)
(* gate is active returns the stored speed and leaves integral, last error *)
(* and the stabilization stamp (and so speed and PWM) unchanged.           *)
C28_GateSkipsAllUpdates ==
    [][ GatedCall =>
          /\ pid_call'.called
          /\ pid_call'.ret = g_speed
          /\ UNCHANGED << g_pid_integral, g_pid_last_error,
                          g_last_speed_change_time, g_speed, pwm >> ]_vars

\* a gated call 100 ms after a speed change, with the tick counter wrapped
\* in between and an error on record
C28_Witness ==
    /\ pc = "status"
    /\ pid_call.called
    /\ pid_call.path = "gate"
    /\ pid_call.target >= 2
    /\ GateActive(tick)
    /\ U32Lt(tick, g_last_speed_change_time)
    /\ g_pid_last_error # 0

\* this step is a controller call of the loop that returns a new speed
PidChangesSpeed ==
    PidBlockStep /\ pid_call'.called /\ pid_call'.ret # g_speed

\* the stamp left by this step is the tick of the call (the second reading
\* of the counter may be one tick later) and reads as set
GateArmedAtCall ==
    /\ g_last_speed_change_time' \in { U32Add(tick, skew) : skew \in TickSkew }
    /\ g_last_speed_change_time' # U32Zero

\* an earlier call returned a new speed less than 500 ms before `now`
ChangedWithinDelay(now) ==
    /\ pid_changed.set
    /\ U32Lt(TicksSince(now, pid_changed.at), RPM_STABILIZE_DELAY_US)

\* every call that returns a new speed arms the gate, and no call with a
\* target of at least 1.0 returns a new speed within 500 ms of such a call
OneChangePerDelay ==
    /\ PidChangesSpeed => GateArmedAtCall
    /\ ( /\ PidBlockStep
         /\ pid_call'.called
         /\ g_desired_rpm >= 2
         /\ ChangedWithinDelay(tick) ) => pid_call'.ret = g_speed

(* C29: every PID call that returns a speed different from the stored one  *)
(* sets the stabilization stamp to the tick of that call, and every PID    *)
(* call less than 500 ms later with a target of at least 1.0 returns the   *)
(* stored speed: at most one change per 500 ms.                            *)
C29_ChangeArmsGate == [][OneChangePerDelay]_vars

\* the same for the calls that take the computed path and are not stamped
\* at tick 0
ComputedChangeArmsGate ==
    [][ (PidChangesSpeed /\ pid_call'.path = "computed"
            /\ g_last_speed_change_time' # U32Zero)
          => /\ GateArmedAtCall
             /\ pid_changed'.at = tick ]_vars

\* once a change has armed the gate, no call with a target of at least 1.0
\* returns a new speed while the stamp is less than 500 ms old
ArmedGateHolds ==
    [][ ( /\ PidBlockStep
          /\ pid_call'.called
          /\ g_desired_rpm >= 2
          /\ GateActive(tick) ) => pid_call'.ret = g_speed ]_vars

\* the new speed of lines 259-294, before the kickstart rule: the stored
\* speed plus the truncated, rate-limited adjustment, clamped to 0..100
RateLimitedClamped(s, current_rpm, desired_rpm) ==
    LET error == desired_rpm - current_rpm
        integral == IF Abs(error) < 2 * 500
                    THEN Clamp(s.integral + error,
                               -(2 * MAX_INTEGRAL), 2 * MAX_INTEGRAL)
                    ELSE s.integral
        sum == KP * error + KI * integral + KD * (error - s.last_error)
        adjustment == Clamp(sum, -(2000 * MAX_SPEED_CHANGE),
                                 2000 * MAX_SPEED_CHANGE)
    IN  Clamp(s.speed + Trunc(adjustment, 2000), 0, 100)

\* a call has returned from the computed path
ComputedCallDone ==
    pc = "status" /\ pid_call.called /\ pid_call.path = "computed"

(* C30: on the computed path, with a stored speed of 0 and a rate-limited, *)
(* clamped new speed strictly between 0 and 20 the controller returns 20;  *)
(* with a stored speed other than 0, or a new speed of 0 or of at least    *)
(* 20, it returns the new speed as computed.                               *)
C30_Kickstart ==
    ComputedCallDone =>
        LET n == RateLimitedClamped(was, g_current_rpm, pid_call.target)
        IN  IF was.speed = 0 /\ n > 0 /\ n < 20
            THEN pid_call.ret = 20
            ELSE pid_call.ret = n

\* from a stored speed of 0 the adjustment is +1 and the call returns 20
C30_Witness ==
    /\ ComputedCallDone
    /\ was.speed = 0
    /\ RateLimitedClamped(was, g_current_rpm, pid_call.target) = 1
    /\ pid_call.ret = 20
    /\ g_last_speed_change_time # U32Zero

\* g_pid_integral is within +-MAX_INTEGRAL
IntegralBounded ==
    /\ g_pid_integral >= -(2 * MAX_INTEGRAL)
    /\ g_pid_integral <= 2 * MAX_INTEGRAL

\* a controller call of the loop whose error is at least 500 RPM in absolute
\* value leaves the integral as it was
LargeErrorKeepsIntegral ==
    ( /\ PidBlockStep
      /\ pid_call'.called
      /\ Abs(g_desired_rpm - g_current_rpm) >= 2 * 500 )
    => UNCHANGED g_pid_integral

(* C31: in every reachable state the PID integral lies within              *)
(* +-MAX_INTEGRAL, and a PID call whose error is at least 500 in absolute  *)
(* value leaves the integral unchanged.                                    *)
C31_IntegralBoundedAntiWindup ==
    []IntegralBounded /\ [][LargeErrorKeepsIntegral]_vars

\* the integral stands at its upper limit and a computed call with an error
\* of -1080 RPM has just left it there
C31_Witness ==
    /\ ComputedCallDone
    /\ pid_call.target - g_current_rpm <= -(2 * 500)
    /\ g_pid_integral = 2 * MAX_INTEGRAL
    /\ g_pid_last_error = pid_call.target - g_current_rpm

\* the same for pidController() on its own: on the computed path an error of
\* at least 500 RPM, 500 itself included, leaves the integral as it was
LargeErrorKeepsIntegralComputed ==
    ( /\ ComputedCallDone
      /\ Abs(pid_call.target - g_current_rpm) >= 2 * 500 )
    => g_pid_integral = was.integral

Min(a, b) == IF a < b THEN a ELSE b

\* the slot that holds the k-th newest edge, k = 1 for the last one
SlotOfNewest(k) == (g_pulse_count - k) % PulseSlots

\* the slots the scan reads, in the order it reads them
ScanOrder == [i \in 0 .. count_to_check - 1 |-> scanSlot(i)]

(* C32: after n recorded edges the write index is n mod the capacity and   *)
(* within the buffer, the windowing count is min(n, capacity), and the     *)
(* scan reads exactly the min(n, capacity) newest slots, oldest first,     *)
(* each once, and no slot that was never written.  The capacity, 1000 in   *)
(* the program, is PulseSlots here.                                        *)
C32_RingIndexAndScan ==
    LET n == g_pulse_count
        m == Min(n, PulseSlots)
    IN  /\ pulse_index = n % PulseSlots
        /\ pulse_index \in 0 .. PulseSlots - 1
        /\ pulse_count = m
        /\ count_to_check = m
        /\ \A i \in 0 .. m - 1 : ScanOrder[i] = SlotOfNewest(m - i)
        /\ \A i, j \in 0 .. m - 1 : ScanOrder[i] = ScanOrder[j] => i = j
        /\ \A i \in 0 .. m - 1 : ScanOrder[i] < m

\* five edges in a buffer of three slots: the index has wrapped, the count
\* has saturated, and an estimate was just computed from the scan
C32_Witness ==
    /\ g_pulse_count = PulseSlots + 2
    /\ pulse_index = 2
    /\ pulse_count = PulseSlots
    /\ rpm_pc = "sleep"
    /\ recomputed

\* the edge held in slot j occurred within the 500 ms that end at `now`, in
\* real time: in this round of the counter, or late in the round before
OccurredWithin(now, j) ==
    \/ /\ era.slot[j] = era.now
       /\ ~U32Lt(now, pulse_times[j])
       /\ ~U32Lt(RPM_CALCULATION_WINDOW_US, U32Sub(now, pulse_times[j]))
    \/ /\ era.slot[j] + 1 = era.now
       /\ U32Lt(now, pulse_times[j])
       /\ ~U32Lt(RPM_CALCULATION_WINDOW_US, U32Sub(now, pulse_times[j]))

\* no edge of the log occurred within the window that ends at `now`
SensorSilent(now) == \A j \in LogSlots : ~OccurredWithin(now, j)

(* C33: when no edge occurred during the 500 ms that end at the query, the *)
(* recomputed estimate is 0, whatever the log holds, also edges recorded   *)
(* one or more rounds of the 32-bit tick ago.                              *)
C33_SilenceReportsZero ==
    (JustRecomputed /\ SensorSilent(tick)) => g_current_rpm = 0

\* the same while every edge of the log was recorded in the present round
\* of the counter
SilenceReportsZeroSameRound ==
    ( /\ JustRecomputed
      /\ SensorSilent(tick)
      /\ \A j \in LogSlots : era.slot[j] = era.now ) => g_current_rpm = 0

(* C34: between the steps of the loop the stored speed is within 0..100    *)
(* and an enabled motor has a stored speed of at least 1; so no PID call   *)
(* of the loop finds a stored speed of 0, and the kickstart rule, which    *)
(* needs one, never fires.                                                 *)
C34_EnabledMeansSpeedPositive ==
    /\ g_speed >= 0
    /\ g_speed <= 100
    /\ g_motor_on # 0 => g_speed >= 1
    /\ pid_call.called =>
          (pid_call.cur >= 1 /\ kickstart(pid_call.cur, pid_call.ret) = pid_call.ret)

\* the PID has just taken the speed from 2 to 0 and setSpeed(0) has disabled
\* the motor
C34_Witness ==
    /\ ComputedCallDone
    /\ pid_call.cur = 2
    /\ pid_call.ret = 0
    /\ g_speed = 0
    /\ g_motor_on = 0

\* the two direction outputs are complementary and show the stored direction
DirectionOutputsMatch ==
    \/ g_direction = 1 /\ in1 = 1 /\ in2 = 0
    \/ g_direction = 0 /\ in1 = 0 /\ in2 = 1

(* C35: between the steps of the loop, whenever the motor is enabled with  *)
(* a PWM duty above 0, the direction outputs are complementary and match   *)
(* the stored direction, also after `off` followed by `s N` or `+`.        *)
C35_EnabledMeansDirectionDriven ==
    (g_motor_on # 0 /\ pwm > 0) => DirectionOutputsMatch

\* the same for a motor that was enabled by `on` or `auto N` and has not
\* been stopped by motorOff() since: every state but those that follow a
\* speed command given to a stopped motor
DirectionDrivenAfterOn ==
    [][ (DirectionOutputsMatch /\ g_motor_on # 0 /\ g_motor_on' # 0)
          => DirectionOutputsMatch' ]_vars

\* Automatic mode with a target of at least 1.0 and the motor disabled at
\* speed 0
StoppedInAuto ==
    /\ g_control_mode = 1
    /\ g_desired_rpm >= 2
    /\ g_motor_on = 0
    /\ g_speed = 0

\* a PID call of the loop with a target of at least 1.0 that returns 0 ends
\* with the motor disabled at speed 0
PidZeroDisables ==
    (PidBlockStep /\ pid_call'.called /\ g_desired_rpm >= 2
        /\ pid_call'.ret = 0)
    => (StoppedInAuto' /\ pwm' = 0)

\* from there, a step that hands no line to processCommand leaves the motor
\* disabled at speed 0 and calls no PID
StoppedStaysStopped ==
    (StoppedInAuto /\ cmd' = <<>>)
    => /\ g_motor_on' = 0
       /\ g_speed' = 0
       /\ pwm' = 0
       /\ PidBlockStep => ~pid_call'.called

\* and the only lines that enable the motor again are `on` and `auto N`
StoppedUntilOnOrAuto ==
    (StoppedInAuto /\ g_motor_on' # 0) => (cmd' = OnLine \/ cmd' \in AutoLines)

(* C36: in Automatic mode with a target of at least 1.0, a PID call that   *)
(* returns 0 makes the loop disable the motor; after that, without a       *)
(* command, the PID is not called again and the motor stays disabled at    *)
(* speed 0, whatever the measured RPM, until `on` or `auto N` arrives.     *)
C36_PidStopIsFinal ==
    [][PidZeroDisables /\ StoppedStaysStopped /\ StoppedUntilOnOrAuto]_vars

\* the cycle after the PID took the speed from 2 to 0: the measured RPM has
\* fallen to 0, far below the target, and the PID block was passed without
\* a call
C36_Witness ==
    /\ pc = "status"
    /\ ready = 0
    /\ StoppedInAuto
    /\ pid_changed.set
    /\ ~pid_call.called
    /\ g_current_rpm = 0
    /\ pwm = 0

(* C37: between the steps of the loop the indicator is on exactly when the *)
(* PWM duty is above 0, and that exactly when the enabled flag is set; the *)
(* duty is then floor(speed * 255 / 100), and always within 0..255.        *)
C37_IndicatorPwmFlagAgree ==
    /\ (led = 1) <=> (pwm > 0)
    /\ (pwm > 0) <=> (g_motor_on # 0)
    /\ led \in {0, 1}
    /\ pwm >= 0
    /\ pwm <= 255
    /\ g_motor_on # 0 => pwm = (g_speed * 255) \div 100

\* a running motor at speed 99: 99 * 255 / 100 = 252.45, duty 252
C37_Witness ==
    /\ pc = "loop"
    /\ g_motor_on = 1
    /\ g_speed = 99
    /\ pwm = 252
    /\ led = 1

ManualLine == <<"m", "a", "n", "u", "a", "l", "\n">>

(* C38: `manual` changes only the mode: afterwards the mode is Manual and  *)
(* enabled flag, stored speed, PWM duty, direction and its outputs, target *)
(* RPM and PID state are as before.                                        *)
C38_ManualChangesOnlyMode ==
    (cmd = ManualLine /\ ~pipe_eof.seen) => St = [was EXCEPT !.mode = 0]

\* `manual` while the PID was driving the motor: it had raised the speed to
\* 32, and the motor keeps running at 32 with the target and the PID state
\* still in place
C38_Witness ==
    /\ cmd = ManualLine
    /\ was.mode = 1
    /\ g_control_mode = 0
    /\ g_motor_on = 1
    /\ g_speed = 32
    /\ pwm = 81
    /\ g_desired_rpm = 240
    /\ g_pid_integral # 0
    /\ g_last_speed_change_time # U32Zero

\* the state after `off` and then `on`, given from state s
OffThenOn(s) == processCommand(processCommand(s, OffLine), OnLine)

(* C39: `off` changes only the enabled flag and the outputs (stored speed, *)
(* direction, mode and target stay), so `off` then `on` from an enabled    *)
(* state with speed v and direction d gives an enabled motor with speed v, *)
(* the PWM duty of v and the direction outputs of d.                       *)
C39_OffKeepsSpeedAndDirection ==
    /\ (cmd = OffLine /\ ~pipe_eof.seen) =>
          St = [was EXCEPT !.motor_on = 0, !.pwm = 0, !.in1 = 0, !.in2 = 0,
                           !.led = 0]
    /\ g_motor_on # 0 =>
          LET s == OffThenOn(St)
          IN  /\ s.motor_on = 1
              /\ s.speed = g_speed
              /\ s.pwm = (g_speed * 255) \div 100
              /\ s.direction = g_direction
              /\ s.in1 = (IF g_direction = 1 THEN 1 ELSE 0)
              /\ s.in2 = (IF g_direction = 1 THEN 0 ELSE 1)
              /\ s.mode = g_control_mode
              /\ s.desired = g_desired_rpm

\* `on` after `off` in reverse at speed 99: the motor runs again at 99,
\* duty 252, in reverse
C39_Witness ==
    /\ cmd = OnLine
    /\ was.motor_on = 0
    /\ was.speed = 99
    /\ was.direction = 0
    /\ g_motor_on = 1
    /\ g_speed = 99
    /\ pwm = 252
    /\ in1 = 0
    /\ in2 = 1

----------------------------------------------------------------------------
(* The bridge (ble_server.c) writing the command FIFO, and main() reading it *)

\* changes of the device's Connected property a behaviour runs through
MaxChanges == 3

\* lines the FIFO holds before a writer blocks
MaxFifo == 2

\* send_beeps(4)
BeepCount == 4

Speed50Line == <<"s", " ", "5", "0", "\n">>

\* commands the phone writes to the command characteristic
PhoneLines ==
    { OnLine,
      OffLine,
      <<"s", " ", "9", "9", "\n">>,
      <<"r", "\n">> }

\* the k-th write of beep_thread: "s 50", then count times "on" and "off"
beepLine(k) ==
    IF k = 0 THEN Speed50Line ELSE IF k % 2 = 1 THEN OnLine ELSE OffLine

\* the writes of one beep_thread
beepWrites(count) == 1 + 2 * count

\* write_to_pipe(command) with pipe_out open and unbuffered; `at` is the
\* connection change whose handler wrote the line, 0 for any other writer
write_to_pipe(q, command, at) == Append(q, [line |-> command, at |-> at])

\* send_beeps(count): a detached beep_thread that has written nothing yet
send_beeps(bs, count) == Append(bs, [count |-> count, done |-> 0])

\* the controller has started and opened the command pipe, the bridge has
\* opened it for writing, no device is connected
BridgeInit ==
    /\ quiet = 0
    /\ g_speed = 0
    /\ g_motor_on = 0
    /\ g_direction = 1
    /\ g_quit = 0
    /\ g_control_mode = 0
    /\ g_desired_rpm = 0
    /\ g_pid_integral = 0
    /\ g_pid_last_error = 0
    /\ g_last_speed_change_time = U32Zero
    /\ g_current_rpm = 0
    /\ g_pipe_fd = 3
    /\ g_pipe_stream = TRUE
    /\ g_rpm_pipe_fd = -1
    /\ g_rpm_pipe_stream = FALSE
    /\ pipe_reconnect_timer = 0
    /\ rpm_reconnect_timer = 0
    /\ pwm = 0
    /\ in1 = 0
    /\ in2 = 0
    /\ led = 0
    /\ tick = <<0, 1>>
    /\ pc = "pipe"
    /\ ready = 0
    /\ rd_stdin = FALSE
    /\ rd_pipe = FALSE
    /\ ncycles = 0
    /\ cmd = <<>>
    /\ was = NoSnap
    /\ pipe_eof = NoEof
    /\ pid_call = NoCall
    /\ pid_changed = NoChange
    /\ write_failed = "no"
    /\ ncmds = 0
    /\ rpm_pc = "loop"
    /\ g_rpm_mutex = "none"
    /\ ret_pc = "none"
    /\ speed_arg = 0
    /\ sig_pc = "none"
    /\ recon = NoRecon
    /\ BridgeIdle
    /\ InitThread
    /\ last_state = 0
    /\ pulse_times = [i \in 0 .. PulseSlots - 1 |-> U32Zero]

bridgeOnly == << g_current_rpm, pipes, sel, pipe_eof, pid_call, pid_changed,
                 write_failed, ncmds, tick, pc, ncycles, quiet, est, recon,
                 thr >>

\* on_properties_changed() with a Connected value that differs from
\* last_connected_state
on_properties_changed(connected) ==
    /\ link.changes < MaxChanges
    /\ connected # last_connected_state
    /\ last_connected_state' = connected
    /\ IF connected
       THEN /\ fifo' = fifo
            /\ beeps' = send_beeps(beeps, BeepCount)
       ELSE /\ Len(fifo) < MaxFifo
            /\ fifo' = write_to_pipe(fifo, OffLine, link.changes + 1)
            /\ beeps' = send_beeps(beeps, BeepCount)
    /\ link' = [ changes |-> link.changes + 1, down |-> ~connected,
                 wrote |-> {}, off_read |-> FALSE ]
    /\ UNCHANGED << ctl, cmd, was, bridgeOnly >>

Connected == on_properties_changed(TRUE)
Disconnected == on_properties_changed(FALSE)

\* one beep_thread does its next write_to_pipe()
beep_thread ==
    /\ \E i \in 1 .. Len(beeps) :
          /\ beeps[i].done < beepWrites(beeps[i].count)
          /\ Len(fifo) < MaxFifo
          /\ fifo' = write_to_pipe(fifo, beepLine(beeps[i].done), 0)
          /\ beeps' = [beeps EXCEPT ![i].done = @ + 1]
          /\ link' = IF link.down
                     THEN [link EXCEPT !.wrote = @ \cup {beepLine(beeps[i].done)}]
                     ELSE link
    /\ UNCHANGED << last_connected_state, ctl, cmd, was, bridgeOnly >>

\* handle_method_call(): the connected phone writes a command, which
\* write_to_pipe() forwards
WriteValue ==
    /\ last_connected_state
    /\ Len(fifo) < MaxFifo
    /\ \E line \in PhoneLines : fifo' = write_to_pipe(fifo, line, 0)
    /\ UNCHANGED << last_connected_state, beeps, link, ctl, cmd, was,
                    bridgeOnly >>

\* main() finds the command pipe readable, fgets() returns the oldest line
\* and processCommand() runs on it
PipeLine ==
    /\ g_pipe_fd # -1
    /\ fifo # <<>>
    /\ Assign(processCommand(St, Head(fifo).line))
    /\ cmd' = Head(fifo).line
    /\ was' = St
    /\ fifo' = Tail(fifo)
    /\ link' = IF link.down /\ Head(fifo).at = link.changes
               THEN [link EXCEPT !.off_read = TRUE]
               ELSE link
    /\ UNCHANGED << last_connected_state, beeps, bridgeOnly >>

BridgeNext ==
    \/ Connected
    \/ Disconnected
    \/ beep_thread
    \/ WriteValue
    \/ PipeLine

BridgeSpec == BridgeInit /\ [][BridgeNext]_vars

\* the controller with the motor stopped, as main() leaves it at start
StoppedManual ==
    [ speed |-> 0, motor_on |-> 0, direction |-> 1, quit |-> 0, mode |-> 0,
      desired |-> 0, integral |-> 0, last_error |-> 0,
      last_change |-> U32Zero, pwm |-> 0, in1 |-> 0, in2 |-> 0, led |-> 0 ]

\* the line, read by the stopped controller, sets the enabled flag
EnablesMotor(line) == processCommand(StoppedManual, line).motor_on # 0

\* the disconnect handler's "off" is in the FIFO or has been read
DisconnectWritesOff ==
    link.down =>
        \/ link.off_read
        \/ \E i \in 1 .. Len(fifo) :
              fifo[i] = [line |-> OffLine, at |-> link.changes]

\* C40: when the connected device disconnects, the bridge writes "off", and
\* from then until a device connects again it writes no line that enables
\* the motor, so that once the controller has read that "off" the motor
\* stays disabled
C40_DisconnectKeepsMotorOff ==
    link.down =>
        /\ DisconnectWritesOff
        /\ \A line \in link.wrote : ~EnablesMotor(line)
        /\ link.off_read => g_motor_on = 0

\* once every beep thread has finished and the FIFO is empty, the motor that
\* was disconnected from is disabled
DisabledAfterLastBeep ==
    ( /\ link.down
      /\ link.off_read
      /\ fifo = <<>>
      /\ \A i \in 1 .. Len(beeps) : beeps[i].done = beepWrites(beeps[i].count) )
        => g_motor_on = 0

=============================================================================
